---- MODULE Spec2Model ----
(***************************************************************************)
(* Expression evaluator: Tokenizer (tokenizer.cpp), shunting-yard Parser   *)
(* (parser.cpp) and RPNEvaluator (RPNEvaluator.cpp) over one token model   *)
(* (operator.hpp).                                                         *)
(*                                                                         *)
(* A token is a record [kind, num, den].  kind is the name of the token's  *)
(* most derived class.  An Integer carries its value in num (den = 1); a   *)
(* Real carries the rational num/den in lowest terms (den = 0 stands for   *)
(* an infinity or a NaN); a Boolean carries 1 or 0 in num; a Variable      *)
(* carries in num the identity of the Variable object (its index in        *)
(* slots).  Every other token has no payload.                              *)
(***************************************************************************)
EXTENDS Integers, Sequences, FiniteSets, TLC

VARIABLES
    variables,   \* Tokenizer::variables_m: identifier spelling -> Variable identity
    slots,       \* slots[h]: the operand held by Variable h, or NullOperand
    pc,          \* "ready", "tokenized", "parsed" or "done"
    expression,  \* the text handed to tokenize, a sequence of characters
    tokens,      \* the TokenList tokenize returned
    rpn,         \* the TokenList parse returned
    outcome,     \* how the current run ended: exception, message, result
    slots0       \* history: slots as they were when evaluate was entered

vars == <<variables, slots, pc, expression, tokens, rpn, outcome, slots0>>

----------------------------------------------------------------------------
(* Bounds of the model.                                                    *)

\* longest generated infix token list handed to parse
MaxTokens == 3
\* largest magnitude of the Integer and Real operands handed to evaluate
MaxOperand == 2
\* most lexemes in a generated expression handed to tokenize
MaxPieces == 3
\* most lexemes in a generated expression handed to a Tokenizer in use
MaxLexemes == 4

----------------------------------------------------------------------------
(* Token model (operator.hpp and the classes it is used with).             *)

RAssocOperator == {"Power", "Assignment"}

LAssocOperator ==
    {"Addition", "And", "Division", "Equality", "Greater", "GreaterEqual",
     "Inequality", "Less", "LessEqual", "Multiplication", "Modulus", "Nand",
     "Nor", "Or", "Subtraction", "Xor", "Xnor"}

BinaryOperator == RAssocOperator \cup LAssocOperator

PrefixOperator == {"Identity", "Negation", "Not"}

PostfixOperator == {"Factorial"}

\* PostfixOperator derives from UnaryOperator (operator.hpp:216)
UnaryOperator == PrefixOperator \cup PostfixOperator

Operator == BinaryOperator \cup UnaryOperator

OneArgFunction ==
    {"Abs", "Arccos", "Arcsin", "Arctan", "Ceil", "Cos", "Exp", "Floor",
     "Lb", "Ln", "Log", "Result", "Sin", "Sqrt", "Tan"}

TwoArgFunction == {"Arctan2", "Max", "Min", "Pow"}

Function == OneArgFunction \cup TwoArgFunction

Operation == Operator \cup Function

IntegerKinds == {"Integer"}

RealKinds == {"Real", "Pi", "E"}

BooleanKinds == {"Boolean", "True", "False"}

Operand == IntegerKinds \cup RealKinds \cup BooleanKinds \cup {"Variable"}

PseudoOperation == {"LeftParenthesis", "RightParenthesis", "ArgumentSeparator"}

\* is<Kind>(token): the token's class is Kind or derives from it
is(Kind, token) == token.kind \in Kind

\* the null Operand::pointer_type
NullOperand == [kind |-> "null", num |-> 0, den |-> 1]

AbsInt(n) == IF n < 0 THEN 0 - n ELSE n

SignInt(n) == IF n < 0 THEN 0 - 1 ELSE IF n > 0 THEN 1 ELSE 0

RECURSIVE Gcd(_, _)
Gcd(a, b) == IF b = 0 THEN a ELSE Gcd(b, a % b)

\* the rational n/d in lowest terms with a positive denominator; n/0 is kept
\* as sign(n)/0: +infinity, -infinity or (0/0) NaN
Ratio(n, d) ==
    IF d = 0 THEN <<SignInt(n), 0>>
    ELSE LET g == Gcd(AbsInt(n), AbsInt(d))
             s == IF d < 0 THEN 0 - 1 ELSE 1
         IN  <<(s * n) \div g, AbsInt(d) \div g>>

make_Integer(n) == [kind |-> "Integer", num |-> n, den |-> 1]

make_Real(n, d) == [kind |-> "Real", num |-> Ratio(n, d)[1], den |-> Ratio(n, d)[2]]

make_Boolean(b) == [kind |-> "Boolean", num |-> IF b THEN 1 ELSE 0, den |-> 1]

make_Variable(h) == [kind |-> "Variable", num |-> h, den |-> 1]

\* make<Kind>() for the tokens built without a payload; the named constants
\* carry their value (Pi and E as rational approximations)
make(Kind) ==
    CASE Kind = "True"  -> [kind |-> Kind, num |-> 1, den |-> 1]
      [] Kind = "False" -> [kind |-> Kind, num |-> 0, den |-> 1]
      [] Kind = "Pi"    -> [kind |-> Kind, num |-> 355, den |-> 113]
      [] Kind = "E"     -> [kind |-> Kind, num |-> 193, den |-> 71]
      [] OTHER          -> [kind |-> Kind, num |-> 0, den |-> 1]

----------------------------------------------------------------------------
(* Parser::parse (parser.cpp).  The operator stack is a sequence whose     *)
(* last element is the top.                                                *)

\* mutant: Multiplication, Division and Modulus rank with Addition
precedence_FlatArithmetic(token) ==
    CASE is({"Factorial"}, token) -> 15
      [] is({"Power"}, token) -> 14
      [] is({"Identity", "Negation", "Not"}, token) -> 13
      [] is({"Multiplication", "Division", "Modulus"}, token) -> 11
      [] is({"Addition", "Subtraction"}, token) -> 11
      [] is({"Less", "LessEqual", "Greater", "GreaterEqual"}, token) -> 9
      [] is({"Equality", "Inequality"}, token) -> 8
      [] is({"And", "Nand"}, token) -> 6
      [] is({"Xor", "Xnor"}, token) -> 5
      [] is({"Or", "Nor"}, token) -> 4
      [] is({"Assignment"}, token) -> 1
      [] OTHER -> 0

\* mutant: Factorial ranks below the prefix operators
precedence_LowFactorial(token) ==
    CASE is({"Factorial"}, token) -> 12
      [] is({"Power"}, token) -> 14
      [] is({"Identity", "Negation", "Not"}, token) -> 13
      [] is({"Multiplication", "Division", "Modulus"}, token) -> 12
      [] is({"Addition", "Subtraction"}, token) -> 11
      [] is({"Less", "LessEqual", "Greater", "GreaterEqual"}, token) -> 9
      [] is({"Equality", "Inequality"}, token) -> 8
      [] is({"And", "Nand"}, token) -> 6
      [] is({"Xor", "Xnor"}, token) -> 5
      [] is({"Or", "Nor"}, token) -> 4
      [] is({"Assignment"}, token) -> 1
      [] OTHER -> 0

precedence(token) ==
    CASE is({"Factorial"}, token) -> 15
      [] is({"Power"}, token) -> 14
      [] is({"Identity", "Negation", "Not"}, token) -> 13
      [] is({"Multiplication", "Division", "Modulus"}, token) -> 12
      [] is({"Addition", "Subtraction"}, token) -> 11
      [] is({"Less", "LessEqual", "Greater", "GreaterEqual"}, token) -> 9
      [] is({"Equality", "Inequality"}, token) -> 8
      [] is({"And", "Nand"}, token) -> 6
      [] is({"Xor", "Xnor"}, token) -> 5
      [] is({"Or", "Nor"}, token) -> 4
      [] is({"Assignment"}, token) -> 1
      [] OTHER -> 0

\* mutant: no operator is right-associative
is_right_associative_Never(token) == FALSE

is_right_associative(token) == is({"Power"}, token) \/ is({"Assignment"}, token)

\* the parser's locals: output, opStack, and the exception thrown, if any
ParseState(output, opStack) ==
    [output |-> output, opStack |-> opStack, exc |-> "none", msg |-> ""]

ParseError(st, msg) == [st EXCEPT !.exc = "runtime_error", !.msg = msg]

Top(stack) == stack[Len(stack)]

Pop(stack) == SubSeq(stack, 1, Len(stack) - 1)

\* while (!opStack.empty() && !is<LeftParenthesis>(opStack.top())) pop to output
RECURSIVE pop_to_left_parenthesis(_)
pop_to_left_parenthesis(st) ==
    IF st.opStack # <<>> /\ ~is({"LeftParenthesis"}, Top(st.opStack))
    THEN pop_to_left_parenthesis(
             [st EXCEPT !.output = Append(st.output, Top(st.opStack)),
                        !.opStack = Pop(st.opStack)])
    ELSE st

\* mutant: the matching LeftParenthesis is moved to the output
parse_RightParenthesis_KeepsParen(st) ==
    LET popped == pop_to_left_parenthesis(st)
    IN  IF popped.opStack = <<>>
        THEN ParseError(popped, "Right parenthesis has no matching left parenthesis")
        ELSE [popped EXCEPT !.output = Append(popped.output, Top(popped.opStack)),
                            !.opStack = Pop(popped.opStack)]

\* mutant: a RightParenthesis that finds no LeftParenthesis is ignored
parse_RightParenthesis_Lenient(st) ==
    LET popped == pop_to_left_parenthesis(st)
    IN  IF popped.opStack = <<>>
        THEN popped
        ELSE LET discarded == [popped EXCEPT !.opStack = Pop(popped.opStack)]
             IN  IF discarded.opStack # <<>> /\ is(Function, Top(discarded.opStack))
                 THEN [discarded EXCEPT
                           !.output = Append(discarded.output, Top(discarded.opStack)),
                           !.opStack = Pop(discarded.opStack)]
                 ELSE discarded

\* mutant: the Function under the LeftParenthesis stays on the stack
parse_RightParenthesis_LeavesFunction(st) ==
    LET popped == pop_to_left_parenthesis(st)
    IN  IF popped.opStack = <<>>
        THEN ParseError(popped, "Right parenthesis has no matching left parenthesis")
        ELSE [popped EXCEPT !.opStack = Pop(popped.opStack)]

parse_RightParenthesis(st) ==
    LET popped == pop_to_left_parenthesis(st)
    IN  IF popped.opStack = <<>>
        THEN ParseError(popped, "Right parenthesis has no matching left parenthesis")
        ELSE LET discarded == [popped EXCEPT !.opStack = Pop(popped.opStack)]
             IN  IF discarded.opStack # <<>> /\ is(Function, Top(discarded.opStack))
                 THEN [discarded EXCEPT
                           !.output = Append(discarded.output, Top(discarded.opStack)),
                           !.opStack = Pop(discarded.opStack)]
                 ELSE discarded

\* the while loop of the Operator case, then opStack.push(token)
RECURSIVE parse_Operator(_, _)
parse_Operator(st, token) ==
    IF st.opStack # <<>> /\ is(Operator, Top(st.opStack))
    THEN LET top == Top(st.opStack)
             topPrec == precedence(top)
             curPrec == precedence(token)
         IN  IF topPrec > curPrec
                \/ (topPrec = curPrec /\ ~is_right_associative(token))
             THEN parse_Operator(
                      [st EXCEPT !.output = Append(st.output, top),
                                 !.opStack = Pop(st.opStack)],
                      token)
             ELSE [st EXCEPT !.opStack = Append(st.opStack, token)]
    ELSE [st EXCEPT !.opStack = Append(st.opStack, token)]

\* mutant: an operand is put in front of the output
parse_token_OperandInFront(st, token) ==
    IF is(Operand, token) THEN [st EXCEPT !.output = <<token>> \o st.output]
    ELSE IF is(Function, token) THEN [st EXCEPT !.opStack = Append(st.opStack, token)]
    ELSE IF is({"ArgumentSeparator"}, token) THEN pop_to_left_parenthesis(st)
    ELSE IF is({"LeftParenthesis"}, token)
         THEN [st EXCEPT !.opStack = Append(st.opStack, token)]
    ELSE IF is({"RightParenthesis"}, token) THEN parse_RightParenthesis(st)
    ELSE IF is(Operator, token) THEN parse_Operator(st, token)
    ELSE st

\* the body of the for loop for one token
parse_token(st, token) ==
    IF is(Operand, token) THEN [st EXCEPT !.output = Append(st.output, token)]
    ELSE IF is(Function, token) THEN [st EXCEPT !.opStack = Append(st.opStack, token)]
    ELSE IF is({"ArgumentSeparator"}, token) THEN pop_to_left_parenthesis(st)
    ELSE IF is({"LeftParenthesis"}, token)
         THEN [st EXCEPT !.opStack = Append(st.opStack, token)]
    ELSE IF is({"RightParenthesis"}, token) THEN parse_RightParenthesis(st)
    ELSE IF is(Operator, token) THEN parse_Operator(st, token)
    ELSE st

\* the for loop from token i on; an exception leaves the loop
RECURSIVE parse_loop(_, _, _)
parse_loop(st, infixTokens, i) ==
    IF i > Len(infixTokens) \/ st.exc # "none" THEN st
    ELSE parse_loop(parse_token(st, infixTokens[i]), infixTokens, i + 1)

\* the final while loop draining opStack
RECURSIVE parse_drain(_)
parse_drain(st) ==
    IF st.exc # "none" \/ st.opStack = <<>> THEN st
    ELSE IF is({"LeftParenthesis"}, Top(st.opStack))
         THEN ParseError(st, "Missing right-parenthesis")
         ELSE parse_drain([st EXCEPT !.output = Append(st.output, Top(st.opStack)),
                                     !.opStack = Pop(st.opStack)])

\* Parser::parse: [exc, msg, output]; a throwing parse returns no output
parse(infixTokens) ==
    LET st == parse_drain(parse_loop(ParseState(<<>>, <<>>), infixTokens, 1))
    IN  [exc |-> st.exc, msg |-> st.msg,
         output |-> IF st.exc = "none" THEN st.output ELSE <<>>]

----------------------------------------------------------------------------
(* RPNEvaluator::evaluate (RPNEvaluator.cpp).                              *)
(* Value is std::variant<Integer::value_type, Real::value_type, bool>: a   *)
(* record [t, num, den] whose t names the alternative held.                *)

NoValue == [t |-> "none", num |-> 0, den |-> 1]

IntegerValue(n) == [t |-> "Integer", num |-> n, den |-> 1]

RealValue(n, d) == [t |-> "Real", num |-> Ratio(n, d)[1], den |-> Ratio(n, d)[2]]

BoolValue(b) == [t |-> "bool", num |-> IF b THEN 1 ELSE 0, den |-> 1]

\* std::holds_alternative<T>(v)
holds_alternative(T, v) == v.t = T

\* a Real that is NaN compares unequal to everything
IsNaN(v) == v.t = "Real" /\ v.num = 0 /\ v.den = 0

\* operator== of std::variant: same alternative and equal contents
variant_equal(l, r) ==
    l.t = r.t /\ l.num = r.num /\ l.den = r.den /\ ~IsNaN(l) /\ ~IsNaN(r)

\* the outcome of a sub-computation: a value, or the exception it threw
Returned(v) == [exc |-> "none", msg |-> "", val |-> v]

Thrown(exc, msg) == [exc |-> exc, msg |-> msg, val |-> NoValue]

\* std::get<T> on a variant holding another alternative
BadVariantAccess == Thrown("bad_variant_access", "bad variant access")

UnsupportedOperand == Thrown("runtime_error", "Error: unsupported operand")

RECURSIVE to_value(_, _)
to_value(operand, sl) ==
    IF is(IntegerKinds, operand) THEN Returned(IntegerValue(operand.num))
    ELSE IF is(RealKinds, operand) THEN Returned(RealValue(operand.num, operand.den))
    ELSE IF is(BooleanKinds, operand) THEN Returned(BoolValue(operand.num = 1))
    ELSE IF is({"Variable"}, operand)
         THEN IF sl[operand.num] = NullOperand
              THEN Thrown("runtime_error", "Error: variable not initialized")
              ELSE to_value(sl[operand.num], sl)
    ELSE UnsupportedOperand

make_operand_from_value(value) ==
    IF holds_alternative("Integer", value) THEN make_Integer(value.num)
    ELSE IF holds_alternative("Real", value) THEN make_Real(value.num, value.den)
    ELSE make_Boolean(value.num = 1)

\* the to_real lambda of promote: an Integer or a bool is converted to Real
to_real(v) ==
    IF holds_alternative("Real", v) THEN v ELSE RealValue(v.num, 1)

\* mutant: the operands are never promoted
promote_Never(lhs, rhs) == <<lhs, rhs>>

\* mutant: only a Real on the left promotes the operands
promote_LeftOnly(lhs, rhs) ==
    IF holds_alternative("Real", lhs) THEN <<to_real(lhs), to_real(rhs)>> ELSE <<lhs, rhs>>

promote(lhs, rhs) ==
    IF holds_alternative("Real", lhs) \/ holds_alternative("Real", rhs)
    THEN <<to_real(lhs), to_real(rhs)>>
    ELSE <<lhs, rhs>>

\* Integer::value_type division truncates toward zero
TruncDiv(a, b) == SignInt(a) * SignInt(b) * (AbsInt(a) \div AbsInt(b))

TruncMod(a, b) == a - b * TruncDiv(a, b)

\* for (i = 1; i <= ival; ++i) result *= i
RECURSIVE factorial(_)
factorial(ival) == IF ival < 1 THEN 1 ELSE ival * factorial(ival - 1)

\* for (i = 0; i < exp; ++i) result *= base
RECURSIVE integer_power(_, _)
integer_power(base, exp) == IF exp <= 0 THEN 1 ELSE base * integer_power(base, exp - 1)

RealAdd(l, r) == RealValue(l.num * r.den + r.num * l.den, l.den * r.den)

RealSub(l, r) == RealValue(l.num * r.den - r.num * l.den, l.den * r.den)

RealMul(l, r) == RealValue(l.num * r.num, l.den * r.den)

RealDiv(l, r) == RealValue(l.num * r.den, l.den * r.num)

RealLess(l, r) == l.num * r.den < r.num * l.den

\* mutant: the sign of a Real is kept
RealNeg_KeepsSign(v) == v

RealNeg(v) == RealValue(0 - v.num, v.den)

\* a Real result that is no rational number (an irrational power, a
\* transcendental function away from its exact points) is left unknown
RealUnknown == [t |-> "Real", num |-> 0, den |-> 0]

\* pow(l, r) for an exponent that is a whole number
RealPow(l, r) ==
    IF r.den # 1 THEN RealUnknown
    ELSE IF r.num >= 0
         THEN RealValue(integer_power(l.num, r.num), integer_power(l.den, r.num))
         ELSE RealValue(integer_power(l.den, 0 - r.num), integer_power(l.num, 0 - r.num))

RealFloor(v) == IF v.den = 0 THEN v ELSE RealValue(v.num \div v.den, 1)

RealCeil(v) == IF v.den = 0 THEN v ELSE RealValue(0 - ((0 - v.num) \div v.den), 1)

\* both operands as T, or the bad_variant_access std::get throws
BothHold(T, l, r) == holds_alternative(T, l) /\ holds_alternative(T, r)

\* Addition, Subtraction, Multiplication, Division on the promoted operands
arithmetic(kind, lProm, rProm) ==
    IF holds_alternative("Real", lProm)
    THEN IF ~holds_alternative("Real", rProm) THEN BadVariantAccess
         ELSE Returned(make_operand_from_value(
                  CASE kind = "Addition" -> RealAdd(lProm, rProm)
                    [] kind = "Subtraction" -> RealSub(lProm, rProm)
                    [] kind = "Multiplication" -> RealMul(lProm, rProm)
                    [] kind = "Division" -> RealDiv(lProm, rProm)))
    ELSE IF ~BothHold("Integer", lProm, rProm) THEN BadVariantAccess
    ELSE IF kind = "Division" /\ rProm.num = 0
         THEN Thrown("overflow_error", "Division by zero.")
    ELSE Returned(make_Integer(
             CASE kind = "Addition" -> lProm.num + rProm.num
               [] kind = "Subtraction" -> lProm.num - rProm.num
               [] kind = "Multiplication" -> lProm.num * rProm.num
               [] kind = "Division" -> TruncDiv(lProm.num, rProm.num)))

\* Less, LessEqual, Greater, GreaterEqual on the promoted operands
relational(kind, lProm, rProm) ==
    LET less(l, r) == IF l.t = "Real" THEN RealLess(l, r) ELSE l.num < r.num
    IN  IF holds_alternative("Real", lProm) /\ ~holds_alternative("Real", rProm)
        THEN BadVariantAccess
        ELSE IF ~holds_alternative("Real", lProm) /\ ~BothHold("Integer", lProm, rProm)
        THEN BadVariantAccess
        ELSE Returned(make_Boolean(
                 CASE kind = "Less" -> less(lProm, rProm)
                   [] kind = "LessEqual" ->
                          less(lProm, rProm) \/ variant_equal(lProm, rProm)
                   [] kind = "Greater" -> less(rProm, lProm)
                   [] kind = "GreaterEqual" ->
                          less(rProm, lProm) \/ variant_equal(lProm, rProm)))

\* And, Or, Nand, Nor: std::get<bool>(lhs), then std::get<bool>(rhs) only
\* when lhs does not decide the result; Xor, Xnor: both std::get<bool>
boolean_operator(kind, lhs, rhs) ==
    IF ~holds_alternative("bool", lhs) THEN BadVariantAccess
    ELSE LET l == lhs.num = 1
             r == rhs.num = 1
             shortCircuits == (kind \in {"And", "Nand"} /\ ~l) \/ (kind \in {"Or", "Nor"} /\ l)
         IN  IF shortCircuits
             THEN Returned(make_Boolean(kind \in {"Nand", "Or"}))
             ELSE IF ~holds_alternative("bool", rhs) THEN BadVariantAccess
             ELSE Returned(make_Boolean(
                      CASE kind = "And" -> l /\ r
                        [] kind = "Or" -> l \/ r
                        [] kind = "Xor" -> l # r
                        [] kind = "Nand" -> ~(l /\ r)
                        [] kind = "Nor" -> ~(l \/ r)
                        [] kind = "Xnor" -> l = r))

\* every BinaryOperator but Assignment: the operand pushed, or the exception
binary_operator(kind, lhs, rhs) ==
    LET lProm == promote(lhs, rhs)[1]
        rProm == promote(lhs, rhs)[2]
    IN  CASE kind \in {"Addition", "Subtraction", "Multiplication", "Division"} ->
                 arithmetic(kind, lProm, rProm)
          [] kind = "Modulus" ->
                 IF ~BothHold("Integer", lProm, rProm) THEN BadVariantAccess
                 ELSE IF rProm.num = 0 THEN Thrown("overflow_error", "Division by zero.")
                 ELSE Returned(make_Integer(TruncMod(lProm.num, rProm.num)))
          [] kind = "Power" ->
                 IF holds_alternative("Real", lProm)
                 THEN IF ~holds_alternative("Real", rProm) THEN BadVariantAccess
                      ELSE Returned(make_operand_from_value(RealPow(lProm, rProm)))
                 ELSE IF ~BothHold("Integer", lProm, rProm) THEN BadVariantAccess
                 ELSE Returned(make_Integer(integer_power(lProm.num, rProm.num)))
          [] kind = "Equality" -> Returned(make_Boolean(variant_equal(lProm, rProm)))
          [] kind = "Inequality" -> Returned(make_Boolean(~variant_equal(lProm, rProm)))
          [] kind \in {"Less", "LessEqual", "Greater", "GreaterEqual"} ->
                 relational(kind, lProm, rProm)
          [] kind \in {"And", "Or", "Xor", "Nand", "Nor", "Xnor"} ->
                 boolean_operator(kind, lhs, rhs)

\* the get_real lambda of the function cases
get_real(val) ==
    IF holds_alternative("Real", val) THEN Returned(val)
    ELSE IF holds_alternative("Integer", val) THEN Returned(RealValue(val.num, 1))
    ELSE BadVariantAccess

\* the <cmath> functions, exact where the result is rational
real_function(kind, x) ==
    CASE kind = "Floor" -> RealFloor(x)
      [] kind = "Ceil" -> RealCeil(x)
      [] kind \in {"Sin", "Tan", "Arcsin", "Arctan", "Sqrt"} /\ x = RealValue(0, 1) ->
             RealValue(0, 1)
      [] kind \in {"Cos", "Exp"} /\ x = RealValue(0, 1) -> RealValue(1, 1)
      [] kind \in {"Ln", "Lb", "Log"} /\ x = RealValue(1, 1) -> RealValue(0, 1)
      [] kind = "Sqrt" /\ x = RealValue(1, 1) -> RealValue(1, 1)
      [] OTHER -> RealUnknown

\* the OneArgFunction case, applied to the value of the operand popped
one_arg_function(kind, v) ==
    IF kind = "Abs"
    THEN IF holds_alternative("Real", v)
         THEN Returned(make_Real(AbsInt(v.num), v.den))
         ELSE IF holds_alternative("Integer", v) THEN Returned(make_Integer(AbsInt(v.num)))
         ELSE BadVariantAccess
    ELSE IF kind = "Result" THEN UnsupportedOperand
    ELSE IF get_real(v).exc # "none" THEN get_real(v)
    ELSE Returned(make_operand_from_value(real_function(kind, get_real(v).val)))

\* the TwoArgFunction case, applied to the values of the operands popped
two_arg_function(kind, lhs, rhs) ==
    IF get_real(lhs).exc # "none" THEN get_real(lhs)
    ELSE IF get_real(rhs).exc # "none" THEN get_real(rhs)
    ELSE LET l == get_real(lhs).val
             r == get_real(rhs).val
         IN  Returned(make_operand_from_value(
                 CASE kind = "Max" -> IF RealLess(l, r) THEN r ELSE l
                   [] kind = "Min" -> IF RealLess(r, l) THEN r ELSE l
                   [] kind = "Pow" -> RealPow(l, r)
                   [] kind = "Arctan2" ->
                          IF l = RealValue(0, 1) /\ RealLess(l, r)
                          THEN RealValue(0, 1) ELSE RealUnknown))

\* the evaluator's locals: the operand stack, the Variable slots it writes,
\* and the exception thrown, if any
EvalState(stack, sl) == [stack |-> stack, slots |-> sl, exc |-> "none", msg |-> ""]

EvalThrow(st, thrown) == [st EXCEPT !.exc = thrown.exc, !.msg = thrown.msg]

InsufficientOperands == Thrown("runtime_error", "Error: insufficient operands")

Push(st, operand) == [st EXCEPT !.stack = Append(st.stack, operand)]

\* a sub-computation's result pushed, or its exception raised
PushReturned(st, r) == IF r.exc # "none" THEN EvalThrow(st, r) ELSE Push(st, r.val)

\* the PostfixOperator case (Factorial)
evaluate_PostfixOperator(st, token) ==
    IF Len(st.stack) < 1 THEN EvalThrow(st, InsufficientOperands)
    ELSE LET operand == Top(st.stack)
             popped == [st EXCEPT !.stack = Pop(st.stack)]
             val == to_value(operand, st.slots)
         IN  IF val.exc # "none" THEN EvalThrow(popped, val)
             ELSE IF ~holds_alternative("Integer", val.val)
                  THEN EvalThrow(popped, UnsupportedOperand)
             ELSE IF val.val.num < 0 THEN EvalThrow(popped, UnsupportedOperand)
             ELSE Push(popped, make_Integer(factorial(val.val.num)))

\* the UnaryOperator case (Identity, Negation, Not)
evaluate_UnaryOperator(st, token) ==
    IF Len(st.stack) < 1 THEN EvalThrow(st, InsufficientOperands)
    ELSE LET operand == Top(st.stack)
             popped == [st EXCEPT !.stack = Pop(st.stack)]
             val == to_value(operand, st.slots)
         IN  IF val.exc # "none" THEN EvalThrow(popped, val)
             ELSE IF is({"Identity"}, token) THEN Push(popped, operand)
             ELSE IF is({"Negation"}, token)
                  THEN IF holds_alternative("Real", val.val)
                       THEN Push(popped, make_operand_from_value(RealNeg(val.val)))
                       ELSE IF holds_alternative("Integer", val.val)
                       THEN Push(popped, make_Integer(0 - val.val.num))
                       ELSE EvalThrow(popped, UnsupportedOperand)
             ELSE IF is({"Not"}, token)
                  THEN IF holds_alternative("bool", val.val)
                       THEN Push(popped, make_Boolean(~(val.val.num = 1)))
                       ELSE EvalThrow(popped, UnsupportedOperand)
             ELSE popped

\* mutant: an Assignment writes every slot
evaluate_Assignment_EverySlot(st, lhsOp, rhs) ==
    IF ~is({"Variable"}, lhsOp)
    THEN EvalThrow(st, Thrown("runtime_error", "Error: assignment to a non-variable."))
    ELSE [st EXCEPT !.slots = [h \in DOMAIN st.slots |-> make_operand_from_value(rhs)],
                    !.stack = Append(st.stack, lhsOp)]

\* the Assignment case, entered with both operands popped and evaluated
evaluate_Assignment(st, lhsOp, rhs) ==
    IF ~is({"Variable"}, lhsOp)
    THEN EvalThrow(st, Thrown("runtime_error", "Error: assignment to a non-variable."))
    ELSE [st EXCEPT !.slots[lhsOp.num] = make_operand_from_value(rhs),
                    !.stack = Append(st.stack, lhsOp)]

\* the BinaryOperator case
evaluate_BinaryOperator(st, token) ==
    IF Len(st.stack) < 2 THEN EvalThrow(st, InsufficientOperands)
    ELSE LET rhsOp == Top(st.stack)
             lhsOp == Top(Pop(st.stack))
             popped == [st EXCEPT !.stack = Pop(Pop(st.stack))]
             rhs == to_value(rhsOp, st.slots)
             lhs == to_value(lhsOp, st.slots)
         IN  IF rhs.exc # "none" THEN EvalThrow(popped, rhs)
             ELSE IF lhs.exc # "none" THEN EvalThrow(popped, lhs)
             ELSE IF is({"Assignment"}, token)
                  THEN evaluate_Assignment(popped, lhsOp, rhs.val)
             ELSE PushReturned(popped, binary_operator(token.kind, lhs.val, rhs.val))

\* the Function case
evaluate_Function(st, token) ==
    IF is(OneArgFunction, token)
    THEN IF Len(st.stack) < 1 THEN EvalThrow(st, InsufficientOperands)
         ELSE LET arg == Top(st.stack)
                  popped == [st EXCEPT !.stack = Pop(st.stack)]
                  v == to_value(arg, st.slots)
              IN  IF v.exc # "none" THEN EvalThrow(popped, v)
                  ELSE PushReturned(popped, one_arg_function(token.kind, v.val))
    ELSE IF Len(st.stack) < 2 THEN EvalThrow(st, InsufficientOperands)
         ELSE LET rhsOp == Top(st.stack)
                  lhsOp == Top(Pop(st.stack))
                  popped == [st EXCEPT !.stack = Pop(Pop(st.stack))]
                  rhs == to_value(rhsOp, st.slots)
                  lhs == to_value(lhsOp, st.slots)
              IN  IF rhs.exc # "none" THEN EvalThrow(popped, rhs)
                  ELSE IF lhs.exc # "none" THEN EvalThrow(popped, lhs)
                  ELSE PushReturned(popped, two_arg_function(token.kind, lhs.val, rhs.val))

\* the body of the for loop for one token
evaluate_token(st, token) ==
    IF is(Operand, token) THEN Push(st, token)
    ELSE IF ~is(Operation, token) THEN st
    ELSE IF is(PostfixOperator, token) THEN evaluate_PostfixOperator(st, token)
    ELSE IF is(UnaryOperator, token) THEN evaluate_UnaryOperator(st, token)
    ELSE IF is(BinaryOperator, token) THEN evaluate_BinaryOperator(st, token)
    ELSE IF is(Function, token) THEN evaluate_Function(st, token)
    ELSE st

\* the for loop from token i on; an exception leaves the loop
RECURSIVE evaluate_loop(_, _, _)
evaluate_loop(st, rpnExpression, i) ==
    IF i > Len(rpnExpression) \/ st.exc # "none" THEN st
    ELSE evaluate_loop(evaluate_token(st, rpnExpression[i]), rpnExpression, i + 1)

\* mutant: the operand on top is returned however many are left
evaluate_TopOfStack(rpnExpression, sl) ==
    LET st == evaluate_loop(EvalState(<<>>, sl), rpnExpression, 1)
        ended(thrown) == [exc |-> thrown.exc, msg |-> thrown.msg,
                          result |-> NullOperand, slots |-> st.slots]
    IN  IF st.exc # "none" THEN ended(st)
        ELSE IF st.stack = <<>> THEN ended(InsufficientOperands)
        ELSE [exc |-> "none", msg |-> "", result |-> Top(st.stack), slots |-> st.slots]

\* RPNEvaluator::evaluate on the Variable slots sl: [exc, msg, result, slots]
evaluate(rpnExpression, sl) ==
    LET st == evaluate_loop(EvalState(<<>>, sl), rpnExpression, 1)
        ended(thrown) == [exc |-> thrown.exc, msg |-> thrown.msg,
                          result |-> NullOperand, slots |-> st.slots]
    IN  IF st.exc # "none" THEN ended(st)
        ELSE IF st.stack = <<>> THEN ended(InsufficientOperands)
        ELSE IF Len(st.stack) # 1
             THEN ended(Thrown("runtime_error", "Error: too many operands"))
        ELSE [exc |-> "none", msg |-> "", result |-> Top(st.stack), slots |-> st.slots]

----------------------------------------------------------------------------
(* Tokenizer (tokenizer.cpp).  An expression is a sequence of characters,  *)
(* each a one-character string; position i of the model is offset i - 1 of *)
(* the code.                                                               *)

\* Tokenizer::Tokenizer(): the keyword dictionary, as pairs <<spelling, token class>>
keywords_m ==
    {<<<<"a", "b", "s">>, "Abs">>,
     <<<<"A", "b", "s">>, "Abs">>,
     <<<<"A", "B", "S">>, "Abs">>,
     <<<<"a", "n", "d">>, "And">>,
     <<<<"A", "n", "d">>, "And">>,
     <<<<"A", "N", "D">>, "And">>,
     <<<<"a", "r", "c", "c", "o", "s">>, "Arccos">>,
     <<<<"A", "r", "c", "c", "o", "s">>, "Arccos">>,
     <<<<"A", "R", "C", "C", "O", "S">>, "Arccos">>,
     <<<<"a", "r", "c", "s", "i", "n">>, "Arcsin">>,
     <<<<"A", "r", "c", "s", "i", "n">>, "Arcsin">>,
     <<<<"A", "R", "C", "S", "I", "N">>, "Arcsin">>,
     <<<<"a", "r", "c", "t", "a", "n">>, "Arctan">>,
     <<<<"A", "r", "c", "t", "a", "n">>, "Arctan">>,
     <<<<"A", "R", "C", "T", "A", "N">>, "Arctan">>,
     <<<<"a", "r", "c", "t", "a", "n", "2">>, "Arctan2">>,
     <<<<"A", "r", "c", "t", "a", "n", "2">>, "Arctan2">>,
     <<<<"A", "R", "C", "T", "A", "N", "2">>, "Arctan2">>,
     <<<<"c", "e", "i", "l">>, "Ceil">>,
     <<<<"C", "e", "i", "l">>, "Ceil">>,
     <<<<"C", "E", "I", "L">>, "Ceil">>,
     <<<<"c", "o", "s">>, "Cos">>,
     <<<<"C", "o", "s">>, "Cos">>,
     <<<<"C", "O", "S">>, "Cos">>,
     <<<<"e">>, "E">>,
     <<<<"E">>, "E">>,
     <<<<"e", "x", "p">>, "Exp">>,
     <<<<"E", "x", "p">>, "Exp">>,
     <<<<"E", "X", "P">>, "Exp">>,
     <<<<"f", "a", "l", "s", "e">>, "False">>,
     <<<<"F", "a", "l", "s", "e">>, "False">>,
     <<<<"F", "A", "L", "S", "E">>, "False">>,
     <<<<"f", "l", "o", "o", "r">>, "Floor">>,
     <<<<"F", "l", "o", "o", "r">>, "Floor">>,
     <<<<"F", "L", "O", "O", "R">>, "Floor">>,
     <<<<"l", "b">>, "Lb">>,
     <<<<"L", "b">>, "Lb">>,
     <<<<"L", "B">>, "Lb">>,
     <<<<"l", "n">>, "Ln">>,
     <<<<"L", "n">>, "Ln">>,
     <<<<"L", "N">>, "Ln">>,
     <<<<"l", "o", "g">>, "Log">>,
     <<<<"L", "o", "g">>, "Log">>,
     <<<<"L", "O", "G">>, "Log">>,
     <<<<"m", "a", "x">>, "Max">>,
     <<<<"M", "a", "x">>, "Max">>,
     <<<<"M", "A", "X">>, "Max">>,
     <<<<"m", "i", "n">>, "Min">>,
     <<<<"M", "i", "n">>, "Min">>,
     <<<<"M", "I", "N">>, "Min">>,
     <<<<"m", "o", "d">>, "Modulus">>,
     <<<<"M", "o", "d">>, "Modulus">>,
     <<<<"M", "O", "D">>, "Modulus">>,
     <<<<"n", "a", "n", "d">>, "Nand">>,
     <<<<"N", "a", "n", "d">>, "Nand">>,
     <<<<"N", "A", "N", "D">>, "Nand">>,
     <<<<"n", "o", "r">>, "Nor">>,
     <<<<"N", "o", "r">>, "Nor">>,
     <<<<"N", "O", "R">>, "Nor">>,
     <<<<"n", "o", "t">>, "Not">>,
     <<<<"N", "o", "t">>, "Not">>,
     <<<<"N", "O", "T">>, "Not">>,
     <<<<"o", "r">>, "Or">>,
     <<<<"O", "r">>, "Or">>,
     <<<<"O", "R">>, "Or">>,
     <<<<"p", "i">>, "Pi">>,
     <<<<"P", "i">>, "Pi">>,
     <<<<"P", "I">>, "Pi">>,
     <<<<"p", "o", "w">>, "Pow">>,
     <<<<"P", "o", "w">>, "Pow">>,
     <<<<"P", "O", "W">>, "Pow">>,
     <<<<"r", "e", "s", "u", "l", "t">>, "Result">>,
     <<<<"R", "e", "s", "u", "l", "t">>, "Result">>,
     <<<<"R", "E", "S", "U", "L", "T">>, "Result">>,
     <<<<"s", "i", "n">>, "Sin">>,
     <<<<"S", "i", "n">>, "Sin">>,
     <<<<"S", "I", "N">>, "Sin">>,
     <<<<"s", "q", "r", "t">>, "Sqrt">>,
     <<<<"S", "q", "r", "t">>, "Sqrt">>,
     <<<<"S", "Q", "R", "T">>, "Sqrt">>,
     <<<<"t", "a", "n">>, "Tan">>,
     <<<<"T", "a", "n">>, "Tan">>,
     <<<<"T", "A", "N">>, "Tan">>,
     <<<<"t", "r", "u", "e">>, "True">>,
     <<<<"T", "r", "u", "e">>, "True">>,
     <<<<"T", "R", "U", "E">>, "True">>,
     <<<<"x", "n", "o", "r">>, "Xnor">>,
     <<<<"X", "n", "o", "r">>, "Xnor">>,
     <<<<"X", "N", "O", "R">>, "Xnor">>,
     <<<<"x", "o", "r">>, "Xor">>,
     <<<<"X", "o", "r">>, "Xor">>,
     <<<<"X", "O", "R">>, "Xor">>}

\* keywords_m.find(ident) != end(keywords_m)
is_keyword(ident) == \E k \in keywords_m : k[1] = ident

\* the interned token keywords_m holds for ident
keyword_token(ident) == make((CHOOSE k \in keywords_m : k[1] = ident)[2])

Digits == {"0", "1", "2", "3", "4", "5", "6", "7", "8", "9"}

Letters ==
    {"a", "b", "c", "d", "e", "f", "g", "h", "i", "j", "k", "l", "m",
     "n", "o", "p", "q", "r", "s", "t", "u", "v", "w", "x", "y", "z",
     "A", "B", "C", "D", "E", "F", "G", "H", "I", "J", "K", "L", "M",
     "N", "O", "P", "Q", "R", "S", "T", "U", "V", "W", "X", "Y", "Z"}

isdigit(c) == c \in Digits

isalpha(c) == c \in Letters

isalnum(c) == isalpha(c) \/ isdigit(c)

isspace(c) == c \in {" ", "\t", "\n", "\r"}

DigitValue(c) ==
    CASE c = "0" -> 0 [] c = "1" -> 1 [] c = "2" -> 2 [] c = "3" -> 3 [] c = "4" -> 4
      [] c = "5" -> 5 [] c = "6" -> 6 [] c = "7" -> 7 [] c = "8" -> 8 [] c = "9" -> 9

\* the first position from i on that holds no whitespace (Len + 1: the end)
RECURSIVE skip_space(_, _)
skip_space(e, i) == IF i <= Len(e) /\ isspace(e[i]) THEN skip_space(e, i + 1) ELSE i

RECURSIVE skip_digits(_, _)
skip_digits(e, i) == IF i <= Len(e) /\ isdigit(e[i]) THEN skip_digits(e, i + 1) ELSE i

RECURSIVE skip_alnum(_, _)
skip_alnum(e, i) == IF i <= Len(e) /\ isalnum(e[i]) THEN skip_alnum(e, i + 1) ELSE i

RECURSIVE skip_binary(_, _)
skip_binary(e, i) ==
    IF i <= Len(e) /\ e[i] \in {"0", "1"} THEN skip_binary(e, i + 1) ELSE i

\* the number written by the digits e[i .. j-1] in the given base
RECURSIVE digits_value(_, _, _, _)
digits_value(e, i, j, base) ==
    IF j <= i THEN 0 ELSE digits_value(e, i, j - 1, base) * base + DigitValue(e[j - 1])

\* what a scanning step yields: a token and the position after it, or the
\* exception thrown with its offset
Scanned(token, pos) == [exc |-> "none", msg |-> "", offset |-> 0, token |-> token, pos |-> pos]

XTokenizer(pos, msg) ==
    [exc |-> "XTokenizer", msg |-> msg, offset |-> pos - 1, token |-> NullOperand, pos |-> pos]

XBadCharacter(pos) ==
    [exc |-> "XBadCharacter", msg |-> "", offset |-> pos - 1, token |-> NullOperand, pos |-> pos]

\* Tokenizer::_get_number; e[pos] is a digit
_get_number(e, pos) ==
    LET j == skip_digits(e, pos + 1)
    IN  IF j > Len(e) \/ (~isdigit(e[j]) /\ e[j] # ".")
        THEN Scanned(make_Integer(digits_value(e, pos, j, 10)), j)
        ELSE IF j + 1 > Len(e) \/ ~isdigit(e[j + 1])
        THEN XTokenizer(j + 1, "Tokenizer::Bad character in expression.")
        ELSE LET m == skip_digits(e, j + 1)
                 scale == integer_power(10, m - (j + 1))
             IN  Scanned(make_Real(digits_value(e, pos, j, 10) * scale
                                       + digits_value(e, j + 1, m, 10), scale), m)

\* the binary literal 0b...; e[pos] = "0" and e[pos + 1] is b or B
binary_literal(e, pos) ==
    IF pos + 2 > Len(e) \/ e[pos + 2] \notin {"0", "1"}
    THEN XTokenizer(pos + 2, "Tokenizer::Bad character in expression.")
    ELSE LET m == skip_binary(e, pos + 2)
         IN  Scanned(make_Integer(digits_value(e, pos + 2, m, 2)), m)

\* mutant: the variable dictionary is not consulted; every occurrence of an
\* identifier makes a new Variable
_get_identifier_AlwaysNew(e, pos, vs, sl) ==
    LET j == skip_alnum(e, pos + 1)
        ident == SubSeq(e, pos, j - 1)
    IN  IF is_keyword(ident)
        THEN [token |-> keyword_token(ident), pos |-> j, variables |-> vs, slots |-> sl]
        ELSE [token |-> make_Variable(Len(sl) + 1), pos |-> j,
              variables |-> [id \in DOMAIN vs \cup {ident} |->
                                IF id = ident THEN Len(sl) + 1 ELSE vs[id]],
              slots |-> Append(sl, NullOperand)]

\* Tokenizer::_get_identifier; e[pos] is a letter.  make<Variable>() is the
\* next Variable object, its slot empty
_get_identifier(e, pos, vs, sl) ==
    LET j == skip_alnum(e, pos + 1)
        ident == SubSeq(e, pos, j - 1)
    IN  IF is_keyword(ident)
        THEN [token |-> keyword_token(ident), pos |-> j, variables |-> vs, slots |-> sl]
        ELSE IF ident \in DOMAIN vs
        THEN [token |-> make_Variable(vs[ident]), pos |-> j, variables |-> vs, slots |-> sl]
        ELSE [token |-> make_Variable(Len(sl) + 1), pos |-> j,
              variables |-> [id \in DOMAIN vs \cup {ident} |->
                                IF id = ident THEN Len(sl) + 1 ELSE vs[id]],
              slots |-> Append(sl, NullOperand)]

\* the classify_prev lambda
classify_prev(token) ==
    IF token = NullOperand THEN "Start"
    ELSE IF is(Operand, token) THEN "Operand"
    ELSE IF is({"RightParenthesis"}, token) THEN "RightParenthesis"
    ELSE IF is(PostfixOperator, token) THEN "PostfixOp"
    ELSE IF is(Function, token) THEN "Function"
    ELSE "Other"

\* mutant: a Function needs no parenthesis
expect_function_paren_Never(e, lookahead) == Scanned(NullOperand, lookahead)

\* the expect_function_paren lambda: the exception it throws, if any
expect_function_paren(e, lookahead) ==
    LET la == skip_space(e, lookahead)
    IN  IF la > Len(e) \/ e[la] # "("
        THEN XTokenizer(la, "Function not followed by (")
        ELSE Scanned(NullOperand, lookahead)

\* the tokenizer's locals and the dictionary it extends
TokenizeState(vs, sl) ==
    [pos |-> 1, tokens |-> <<>>, prev |-> "Start", variables |-> vs, slots |-> sl,
     exc |-> "none", msg |-> "", offset |-> 0]

\* tokenizedExpression.push_back(tkn); prev = classify_prev(tkn); continue
Emit(ts, token, pos) ==
    [ts EXCEPT !.tokens = Append(ts.tokens, token), !.prev = classify_prev(token),
               !.pos = pos]

\* a scanning step's token emitted, or its exception raised
EmitScanned(ts, sc) ==
    IF sc.exc # "none"
    THEN [ts EXCEPT !.exc = sc.exc, !.msg = sc.msg, !.offset = sc.offset]
    ELSE Emit(ts, sc.token, sc.pos)

\* the CHECK_2OP table
TwoCharOperators ==
    {<<"<", "=", "LessEqual">>, <<">", "=", "GreaterEqual">>, <<"=", "=", "Equality">>,
     <<"!", "=", "Inequality">>, <<"*", "*", "Power">>}

\* the CHECK_OP table
OneCharOperators ==
    {<<"*", "Multiplication">>, <<"/", "Division">>, <<"%", "Modulus">>,
     <<"(", "LeftParenthesis">>, <<")", "RightParenthesis">>,
     <<",", "ArgumentSeparator">>, <<"<", "Less">>, <<">", "Greater">>}

\* mutant: only an operand counts as the end of an expression
AfterExpression_OperandOnly(prev) == prev = "Operand"

\* mutant: a RightParenthesis does not count as the end of an expression
AfterExpression_NotAfterParenthesis(prev) == prev \in {"Operand", "PostfixOp"}

AfterExpression(prev) == prev \in {"Operand", "PostfixOp", "RightParenthesis"}

\* one pass of the for (;;) loop, entered at a character that is no whitespace
tokenize_step(e, ts) ==
    LET i == ts.pos
        c == e[i]
        two == {t \in TwoCharOperators : c = t[1] /\ i + 1 <= Len(e) /\ e[i + 1] = t[2]}
        one == {t \in OneCharOperators : c = t[1]}
    IN  IF isdigit(c)
        THEN IF c = "0" /\ i + 1 <= Len(e) /\ e[i + 1] \in {"b", "B"}
             THEN EmitScanned(ts, binary_literal(e, i))
             ELSE EmitScanned(ts, _get_number(e, i))
        ELSE IF two # {} THEN Emit(ts, make((CHOOSE t \in two : TRUE)[3]), i + 2)
        ELSE IF one # {} THEN Emit(ts, make((CHOOSE t \in one : TRUE)[2]), i + 1)
        ELSE IF c = "!"
             THEN IF AfterExpression(ts.prev) THEN Emit(ts, make("Factorial"), i + 1)
                  ELSE EmitScanned(ts, XTokenizer(i, "Factorial must follow Expression"))
        ELSE IF c = "=" THEN Emit(ts, make("Assignment"), i + 1)
        ELSE IF c = "+"
             THEN Emit(ts, make(IF AfterExpression(ts.prev) THEN "Addition" ELSE "Identity"),
                       i + 1)
        ELSE IF c = "-"
             THEN Emit(ts, make(IF AfterExpression(ts.prev) THEN "Subtraction"
                                ELSE "Negation"), i + 1)
        ELSE IF isalpha(c)
             THEN LET id == _get_identifier(e, i, ts.variables, ts.slots)
                      registered == [ts EXCEPT !.variables = id.variables,
                                               !.slots = id.slots]
                      paren == IF is(Function, id.token)
                               THEN expect_function_paren(e, id.pos)
                               ELSE Scanned(NullOperand, id.pos)
                  IN  IF paren.exc # "none" THEN EmitScanned(registered, paren)
                      ELSE Emit(registered, id.token, id.pos)
        ELSE EmitScanned(ts, XBadCharacter(i))

\* the for (;;) loop: strip whitespace, stop at the end of the expression
RECURSIVE tokenize_loop(_, _)
tokenize_loop(e, ts) ==
    LET stripped == [ts EXCEPT !.pos = skip_space(e, ts.pos)]
    IN  IF ts.exc # "none" \/ stripped.pos > Len(e) THEN ts
        ELSE tokenize_loop(e, tokenize_step(e, stripped))

\* mutant: a throwing call gives back the dictionary it was entered with
tokenize_RollsBack(e, vs, sl) ==
    LET ts == tokenize_loop(e, TokenizeState(vs, sl))
    IN  [exc |-> ts.exc, msg |-> ts.msg, offset |-> ts.offset,
         tokens |-> IF ts.exc = "none" THEN ts.tokens ELSE <<>>,
         variables |-> IF ts.exc = "none" THEN ts.variables ELSE vs,
         slots |-> IF ts.exc = "none" THEN ts.slots ELSE sl]

\* Tokenizer::tokenize on the dictionary vs and the slots sl:
\* [exc, msg, offset, tokens, variables, slots]; a throwing call returns no list
tokenize(e, vs, sl) ==
    LET ts == tokenize_loop(e, TokenizeState(vs, sl))
    IN  [exc |-> ts.exc, msg |-> ts.msg, offset |-> ts.offset,
         tokens |-> IF ts.exc = "none" THEN ts.tokens ELSE <<>>,
         variables |-> ts.variables, slots |-> ts.slots]

----------------------------------------------------------------------------
(* The pipeline on one Tokenizer instance: tokenize, parse, evaluate, each *)
(* run to completion, then the next expression.                            *)

\* the expressions handed to tokenize
Expressions ==
    {
     <<"x", " ", "=", " ", "5">>,   \* x = 5
     <<"x", " ", "+", " ", "1">>,   \* x + 1
     <<"x">>,   \* x
     <<"y", " ", "=", " ", "x">>,   \* y = x
     <<"x", " ", "y", " ", "x">>,   \* x y x
     <<"X", " ", "x">>,   \* X x
     <<"x", "y", " ", "=", " ", "1">>,   \* xy = 1
     <<"-", "3", "!">>,   \* -3!
     <<"+", "3", "!">>,   \* +3!
     <<"n", "o", "t", " ", "3", "!">>,   \* not 3!
     <<"2", " ", "+", " ", "3", " ", "*", " ", "4">>,   \* 2 + 3 * 4
     <<"2", " ", "*", "*", " ", "3", " ", "*", "*", " ", "2">>,   \* 2 ** 3 ** 2
     <<"(", "1", " ", "+", " ", "2", ")", " ", "*", " ", "3", ".", "0">>,   \* (1 + 2) * 3.0
     <<"m", "a", "x", "(", "1", ",", " ", "2", ")", " ", "+", " ", "m", "i", "n", "(", "3", ",", " ", "4", ")">>,   \* max(1, 2) + min(3, 4)
     <<"0", "b", "1", "0", "1", "1">>,   \* 0b1011
     <<"t", "r", "u", "e", " ", "a", "n", "d", " ", "(", "f", "a", "l", "s", "e", " ", "o", "r", " ", "n", "o", "t", " ", "f", "a", "l", "s", "e", ")">>,   \* true and (false or not false)
     <<"(", "(", "1", "+", "2", ")">>,   \* ((1+2)
     <<"s", "i", "n", " ", "1">>,   \* sin 1
     <<"!", "5">>,   \* !5
     <<"x", " ", "$">>,   \* x $
     <<"1", ".">>,   \* 1.
     <<"y", " ", ")">>,   \* y )
     <<>>   \* the empty expression
    }

NoOutcome == [stage |-> "none", exc |-> "none", msg |-> "", offset |-> 0,
              result |-> NullOperand]

Ended(stage, r, result) ==
    [stage |-> stage, exc |-> r.exc, msg |-> r.msg,
     offset |-> IF stage = "tokenize" THEN r.offset ELSE 0, result |-> result]

\* a new Tokenizer: no variable registered, no expression handled
Init ==
    /\ variables = <<>>
    /\ slots = <<>>
    /\ pc = "ready"
    /\ expression = <<>>
    /\ tokens = <<>>
    /\ rpn = <<>>
    /\ outcome = NoOutcome
    /\ slots0 = <<>>

\* tokenize(e): the dictionary keeps what was registered, also when it throws
Tokenize(e) ==
    /\ pc \in {"ready", "done"}
    /\ LET r == tokenize(e, variables, slots)
       IN  /\ variables' = r.variables
           /\ slots' = r.slots
           /\ slots0' = r.slots
           /\ tokens' = r.tokens
           /\ pc' = IF r.exc = "none" THEN "tokenized" ELSE "done"
           /\ outcome' = IF r.exc = "none" THEN NoOutcome
                         ELSE Ended("tokenize", r, NullOperand)
    /\ expression' = e
    /\ rpn' = <<>>

\* parse(tokens)
Parse ==
    /\ pc = "tokenized"
    /\ LET r == parse(tokens)
       IN  /\ rpn' = r.output
           /\ pc' = IF r.exc = "none" THEN "parsed" ELSE "done"
           /\ outcome' = IF r.exc = "none" THEN NoOutcome
                         ELSE Ended("parse", r, NullOperand)
    /\ UNCHANGED <<variables, slots, slots0, expression, tokens>>

\* evaluate(rpn): an Assignment writes the slot of its Variable
Evaluate ==
    /\ pc = "parsed"
    /\ LET r == evaluate(rpn, slots)
       IN  /\ slots' = r.slots
           /\ outcome' = Ended("evaluate", r, r.result)
    /\ pc' = "done"
    /\ UNCHANGED <<variables, slots0, expression, tokens, rpn>>

Next ==
    \/ \E e \in Expressions : Tokenize(e)
    \/ Parse
    \/ Evaluate

Spec == Init /\ [][Next]_vars

----------------------------------------------------------------------------
(* parse, then evaluate, on infix token lists.                             *)

\* the tokens the generated lists are made of
ParseAlphabet ==
    {make_Integer(2), make_Variable(1), make("Addition"), make("Power"),
     make("Negation"), make("Factorial"), make("Max"), make("LeftParenthesis"),
     make("RightParenthesis"), make("ArgumentSeparator")}

\* every list of at most MaxTokens tokens of the alphabet
GeneratedLists == UNION {[1..n -> ParseAlphabet] : n \in 0..MaxTokens}

\* a op1 b op2 c for every pair of binary operators
BinaryPairs ==
    {<<make_Integer(2), make(o1), make_Integer(3), make(o2), make_Integer(2)>> :
        o1 \in BinaryOperator, o2 \in BinaryOperator}

\* a postfix Factorial behind a prefix operator and its operand
PrefixPostfix ==
    {<<make(p), make_Integer(3), make("Factorial")>> : p \in PrefixOperator}

\* a prefix operator directly behind a prefix operator or behind Power
PrefixChains ==
    {<<make(p1), make(p2), a>> :
        p1 \in PrefixOperator, p2 \in PrefixOperator,
        a \in {make_Integer(3), make("True")}}
    \cup {<<make_Integer(2), make("Power"), make(p), make_Integer(1)>> :
            p \in PrefixOperator}

\* expressions whose token lists are parsed
ParseExpressions ==
    {
     <<"-", " ", "-", " ", "3">>,   \* - - 3
     <<"n", "o", "t", " ", "n", "o", "t", " ", "t", "r", "u", "e">>,   \* not not true
     <<"2", " ", "*", "*", " ", "-", "1">>,   \* 2 ** -1
     <<"2", " ", "+", " ", "3", " ", "*", " ", "4">>,   \* 2 + 3 * 4
     <<"2", " ", "*", "*", " ", "3", " ", "*", "*", " ", "2">>,   \* 2 ** 3 ** 2
     <<"-", "3", "!">>,   \* -3!
     <<"m", "a", "x", "(", "1", ",", " ", "2", ")", " ", "+", " ", "m", "i", "n", "(", "3", ",", " ", "4", ")">>,   \* max(1, 2) + min(3, 4)
     <<"(", "1", " ", "+", " ", "2", ")", " ", "*", " ", "3", ".", "0">>,   \* (1 + 2) * 3.0
     <<"t", "r", "u", "e", " ", "a", "n", "d", " ", "(", "f", "a", "l", "s", "e", " ", "o", "r", " ", "n", "o", "t", " ", "f", "a", "l", "s", "e", ")">>,   \* true and (false or not false)
     <<"(", "(", "1", "+", "2", ")">>,   \* ((1+2)
     <<"m", "a", "x", "(", "2", ",", " ", "2", ")">>   \* max(2, 2)
    }

\* the dictionary and slots of a Tokenizer that has read x and y
TwoVariables == (<<"x">> :> 1) @@ (<<"y">> :> 2)

TwoEmptySlots == <<NullOperand, NullOperand>>

\* the arguments of the generated function calls
Arguments ==
    {<<make_Integer(2)>>,
     <<make("Negation"), make_Integer(3)>>,
     <<make_Integer(2), make("Addition"), make_Integer(3)>>,
     <<make_Integer(1), make("Subtraction"), make_Integer(2), make("Multiplication"),
       make_Integer(3)>>,
     <<make("LeftParenthesis"), make_Integer(1), make("Addition"), make_Integer(2),
       make("RightParenthesis"), make("Multiplication"), make_Integer(3)>>,
     <<make("Min"), make("LeftParenthesis"), make_Integer(3), make("ArgumentSeparator"),
       make_Integer(4), make("RightParenthesis")>>}

\* f ( a , b )
Call(f, a, b) ==
    <<make(f), make("LeftParenthesis")>> \o a \o <<make("ArgumentSeparator")>> \o b
        \o <<make("RightParenthesis")>>

\* f(a, b), alone and as the left operand of a binary operator
FunctionCalls ==
    {Call(f, a, b) : f \in TwoArgFunction, a \in Arguments, b \in Arguments}
    \cup {Call(f, a, b) \o <<make(op), make_Integer(2)>> :
            f \in {"Max", "Min"}, a \in Arguments, b \in Arguments,
            op \in {"Addition", "Subtraction"}}

InfixInputs ==
    GeneratedLists \cup BinaryPairs \cup PrefixPostfix \cup FunctionCalls
    \cup PrefixChains
    \cup {tokenize(e, TwoVariables, TwoEmptySlots).tokens : e \in ParseExpressions}

InitParse ==
    /\ variables = TwoVariables
    /\ slots = TwoEmptySlots
    /\ slots0 = TwoEmptySlots
    /\ pc = "tokenized"
    /\ expression = <<>>
    /\ tokens \in InfixInputs
    /\ rpn = <<>>
    /\ outcome = NoOutcome

NextParse == Parse \/ Evaluate

SpecParse == InitParse /\ [][NextParse]_vars

----------------------------------------------------------------------------
(* evaluate on postfix token lists.  The Variables are four Variable       *)
(* objects: one never set, and one set (Variable::set) to an operand of    *)
(* each kind.                                                              *)

EvalVariables ==
    (<<"u">> :> 1) @@ (<<"i">> :> 2) @@ (<<"r">> :> 3) @@ (<<"b">> :> 4)

EvalSlots == <<NullOperand, make_Integer(2), make_Real(2, 1), make_Boolean(TRUE)>>

EvalOperands ==
    {make_Integer(n) : n \in (0 - MaxOperand)..MaxOperand}
    \cup {make_Real(n, d) : n \in (0 - MaxOperand)..MaxOperand, d \in {1, 2}}
    \cup {make_Boolean(TRUE), make_Boolean(FALSE)}
    \cup {make_Variable(h) : h \in DOMAIN EvalSlots}

\* postfix lists with too few or too many operands for their operation
ArityInputs ==
    {<<>>}
    \cup {<<make(op)>> : op \in Operation}
    \cup {<<a, make(op)>> : a \in EvalOperands, op \in BinaryOperator \cup TwoArgFunction}
    \cup {<<a, b>> : a \in EvalOperands, b \in EvalOperands}
    \cup {<<a, b, make(op)>> : a \in EvalOperands, b \in EvalOperands,
                              op \in UnaryOperator \cup OneArgFunction}

\* (1 + 2) * 3.0 and (1 + 2) * 3 in postfix order
PromotionInputs ==
    {<<make_Integer(1), make_Integer(2), make("Addition"), c, make("Multiplication")>> :
        c \in {make_Real(3, 1), make_Integer(3)}}

EvalInputs ==
    {<<a, b, make(op)>> : a \in EvalOperands, b \in EvalOperands,
                          op \in BinaryOperator \cup TwoArgFunction}
    \cup {<<a, make(op)>> : a \in EvalOperands, op \in UnaryOperator \cup OneArgFunction}
    \cup ArityInputs \cup PromotionInputs

InitEval ==
    /\ variables = EvalVariables
    /\ slots = EvalSlots
    /\ slots0 = EvalSlots
    /\ pc = "parsed"
    /\ expression = <<>>
    /\ tokens = <<>>
    /\ rpn \in EvalInputs
    /\ outcome = NoOutcome

SpecEval == InitEval /\ [][Evaluate]_vars

----------------------------------------------------------------------------
(* tokenize on generated expressions, each read by a new Tokenizer.        *)

\* the lexemes the generated expressions are made of
Pieces ==
    {<<"1">>, <<"x">>, <<"e">>, <<"s", "i", "n">>, <<"(">>, <<")">>, <<",">>,
     <<"!">>, <<"=">>, <<"+">>, <<"-">>, <<"*">>, <<" ">>}

RECURSIVE Concat(_)
Concat(pieces) ==
    IF pieces = <<>> THEN <<>> ELSE Head(pieces) \o Concat(Tail(pieces))

\* every expression written with at most MaxPieces lexemes
TokenizeInputs == {Concat(l) : l \in UNION {[1..n -> Pieces] : n \in 0..MaxPieces}}

InitTokenize ==
    /\ variables = <<>>
    /\ slots = <<>>
    /\ slots0 = <<>>
    /\ pc = "ready"
    /\ expression \in TokenizeInputs
    /\ tokens = <<>>
    /\ rpn = <<>>
    /\ outcome = NoOutcome

NextTokenize == Tokenize(expression)

SpecTokenize == InitTokenize /\ [][NextTokenize]_vars

----------------------------------------------------------------------------
(* The pipeline on a Tokenizer whose Variables u, i, r and b were read      *)
(* before and hold nothing, Integer 2, Real 2 and Boolean true.             *)

\* the expressions handed to tokenize
AssignExpressions ==
    {
     <<"i", " ", "=", " ", "1">>,   \* i = 1
     <<"i", " ", "=", " ", "r">>,   \* i = r
     <<"r", " ", "=", " ", "i">>,   \* r = i
     <<"b", " ", "=", " ", "i">>,   \* b = i
     <<"u", " ", "=", " ", "1">>,   \* u = 1
     <<"n", " ", "=", " ", "i">>,   \* n = i
     <<"i", " ", "=", " ", "r", " ", "=", " ", "1">>,   \* i = r = 1
     <<"(", "i", " ", "=", " ", "1", ")", " ", "+", " ", "(", "r", " ", "=", " ", "i", ")">>,   \* (i = 1) + (r = i)
     <<"m", "a", "x", "(", "i", " ", "=", " ", "1", ",", " ", "r", ")">>,   \* max(i = 1, r)
     <<"1", " ", "=", " ", "i">>,   \* 1 = i
     <<"i", " ", "+", " ", "r">>,   \* i + r
     <<"-", "i", "!">>,   \* -i!
     <<"i", " ", "=", " ", "1", " ", ")">>,   \* i = 1 )
     <<"i", " ", "=", " ", "m", " ", "$">>   \* i = m $
    }

InitAssign ==
    /\ variables = EvalVariables
    /\ slots = EvalSlots
    /\ slots0 = EvalSlots
    /\ pc = "ready"
    /\ expression = <<>>
    /\ tokens = <<>>
    /\ rpn = <<>>
    /\ outcome = NoOutcome

NextAssign ==
    \/ \E e \in AssignExpressions : Tokenize(e)
    \/ Parse
    \/ Evaluate

SpecAssign == InitAssign /\ [][NextAssign]_vars

----------------------------------------------------------------------------
(* tokenize on generated expressions, each read by a Tokenizer that has    *)
(* read u, i, r and b before.                                              *)

\* the lexemes of the generated expressions: a registered identifier, two
\* new ones, and what makes tokenize fail
Lexemes ==
    {<<"i">>, <<"n">>, <<"m">>, <<"+">>, <<"1">>, <<".">>, <<"$">>, <<"!">>,
     <<"s", "i", "n">>}

RegisterInputs == {Concat(l) : l \in UNION {[1..n -> Lexemes] : n \in 0..MaxLexemes}}

InitRegister ==
    /\ variables = EvalVariables
    /\ slots = EvalSlots
    /\ slots0 = EvalSlots
    /\ pc = "ready"
    /\ expression \in RegisterInputs
    /\ tokens = <<>>
    /\ rpn = <<>>
    /\ outcome = NoOutcome

NextRegister == Tokenize(expression)

SpecRegister == InitRegister /\ [][NextRegister]_vars

----------------------------------------------------------------------------
(* Properties.                                                             *)

\* the value an operand had when evaluate was entered
ValueAtEntry(operand) == to_value(operand, slots0)

HasValue(operand) == ValueAtEntry(operand).exc = "none"

\* postfix lists of the shape  a b op  and infix lists of the shape  a o1 b o2 c
IsBinaryRpn(ops) ==
    Len(rpn) = 3 /\ is(Operand, rpn[1]) /\ is(Operand, rpn[2]) /\ is(ops, rpn[3])

IsInfixTriple ==
    /\ Len(tokens) = 5
    /\ is(Operand, tokens[1]) /\ is(Operand, tokens[3]) /\ is(Operand, tokens[5])
    /\ is(BinaryOperator, tokens[2]) /\ is(BinaryOperator, tokens[4])

Parsed == pc = "parsed" \/ (pc = "done" /\ outcome.stage = "evaluate")

\* the precedence table of the binary operators, one set per level, lowest first
PrecedenceTable ==
    <<{"Assignment"}, {"Or", "Nor"}, {"Xor", "Xnor"}, {"And", "Nand"},
      {"Equality", "Inequality"}, {"Less", "LessEqual", "Greater", "GreaterEqual"},
      {"Addition", "Subtraction"}, {"Multiplication", "Division", "Modulus"},
      {"Power"}>>

Level(token) == CHOOSE l \in DOMAIN PrecedenceTable : token.kind \in PrecedenceTable[l]

\* C1: on one tokenizer, evaluating  x = v  for a Variable x whose slot is
\* empty succeeds, stores v in the slot of x and yields x; and  x + 1  read
\* with 5 stored in x yields Integer 6.
C1_AssignThenRead ==
    /\ (/\ pc = "done"
        /\ Len(tokens) = 3
        /\ is({"Variable"}, tokens[1])
        /\ is({"Assignment"}, tokens[2])
        /\ is({"Integer", "Real"}, tokens[3])
        /\ slots0[tokens[1].num] = NullOperand)
       => (/\ outcome.exc = "none"
           /\ outcome.result = tokens[1]
           /\ slots[tokens[1].num] = tokens[3])
    /\ (/\ pc = "done"
        /\ Len(tokens) = 3
        /\ is({"Variable"}, tokens[1])
        /\ tokens[2] = make("Addition")
        /\ tokens[3] = make_Integer(1)
        /\ slots0[tokens[1].num] = make_Integer(5))
       => outcome.result = make_Integer(6)

\* C2: whenever parse succeeds, its output holds operands, operators and
\* functions only: no LeftParenthesis, RightParenthesis or ArgumentSeparator.
C2_NoPseudoTokens ==
    Parsed => \A i \in DOMAIN rpn :
                 /\ is(Operand \cup Operator \cup Function, rpn[i])
                 /\ ~is(PseudoOperation, rpn[i])

C2_Witness ==
    /\ pc = "parsed"
    /\ rpn # <<>>
    /\ \A k \in PseudoOperation : \E i \in DOMAIN tokens : tokens[i].kind = k

\* the identifiers of an expression made of letters and blanks only
LettersAndBlanks(e) == \A i \in DOMAIN e : e[i] \in Letters \cup {" "}

RECURSIVE EndOfWord(_, _)
EndOfWord(e, i) == IF i <= Len(e) /\ e[i] # " " THEN EndOfWord(e, i + 1) ELSE i

RECURSIVE Words(_, _)
Words(e, i) ==
    IF i > Len(e) THEN <<>>
    ELSE IF e[i] = " " THEN Words(e, i + 1)
    ELSE <<SubSeq(e, i, EndOfWord(e, i) - 1)>> \o Words(e, EndOfWord(e, i))

\* every occurrence of a spelling is the Variable token registered for it
SameSpellingSameToken ==
    (pc = "tokenized" /\ LettersAndBlanks(expression))
    => LET w == Words(expression, 1)
       IN  /\ Len(tokens) = Len(w)
           /\ \A i \in DOMAIN w :
                 ~is_keyword(w[i]) =>
                     /\ w[i] \in DOMAIN variables
                     /\ tokens[i] = make_Variable(variables[w[i]])

\* two spellings never share a Variable
DifferentSpellingDifferentToken ==
    \A a \in DOMAIN variables, b \in DOMAIN variables :
        a # b => variables[a] # variables[b]

\* a registered spelling keeps the Variable created at its first occurrence
RegisteredStaysRegistered ==
    \A a \in DOMAIN variables : a \in DOMAIN variables' /\ variables'[a] = variables[a]

\* C3: across the tokenize calls on one Tokenizer, every occurrence of a
\* non-keyword spelling yields the Variable token created at its first
\* occurrence, and two different spellings yield two different Variables.
C3_SharedVariableTokens ==
    [][/\ RegisteredStaysRegistered
       /\ SameSpellingSameToken'
       /\ DifferentSpellingDifferentToken']_vars

\* x y x  read after an earlier call registered y and then x
C3_Witness ==
    /\ pc = "tokenized"
    /\ expression = <<"x", " ", "y", " ", "x">>
    /\ tokens = <<make_Variable(2), make_Variable(1), make_Variable(2)>>
    /\ variables[<<"y">>] = 1

\* C4: no slot ever holds a Variable, and  x = y  with y holding v stores an
\* operand of value v in the slot of x.
C4_AssignmentStoresValue ==
    /\ \A h \in DOMAIN slots : ~is({"Variable"}, slots[h])
    /\ (/\ pc = "done"
        /\ IsBinaryRpn({"Assignment"})
        /\ is({"Variable"}, rpn[1])
        /\ is({"Variable"}, rpn[2])
        /\ HasValue(rpn[2]))
       => (/\ outcome.exc = "none"
           /\ slots[rpn[1].num] = make_operand_from_value(ValueAtEntry(rpn[2]).val))

\* C5: two binary operators of one precedence level group to the left,
\* a b o1 c o2, when left-associative, and to the right, a b c o2 o1, when
\* they are Power or Assignment; 2 ** 3 ** 2 evaluates to Integer 512.
C5_Associativity ==
    /\ (Parsed /\ IsInfixTriple /\ Level(tokens[2]) = Level(tokens[4]))
       => IF is(LAssocOperator, tokens[2])
          THEN rpn = <<tokens[1], tokens[3], tokens[2], tokens[5], tokens[4]>>
          ELSE rpn = <<tokens[1], tokens[3], tokens[5], tokens[4], tokens[2]>>
    /\ (/\ pc = "done"
        /\ tokens = <<make_Integer(2), make("Power"), make_Integer(3), make("Power"),
                      make_Integer(2)>>)
       => (outcome.exc = "none" /\ outcome.result = make_Integer(512))

C5_Witness ==
    /\ pc = "done"
    /\ tokens = <<make_Integer(2), make("Power"), make_Integer(3), make("Power"),
                  make_Integer(2)>>
    /\ rpn = <<make_Integer(2), make_Integer(3), make_Integer(2), make("Power"),
               make("Power")>>
    /\ outcome.result = make_Integer(512)

\* C6: of two binary operators of different precedence the higher one is
\* applied first: a lo b hi c parses to a b c hi lo, a hi b lo c parses to
\* a b hi c lo; 2 + 3 * 4 evaluates to Integer 14.
C6_Precedence ==
    /\ (Parsed /\ IsInfixTriple /\ Level(tokens[2]) < Level(tokens[4]))
       => rpn = <<tokens[1], tokens[3], tokens[5], tokens[4], tokens[2]>>
    /\ (Parsed /\ IsInfixTriple /\ Level(tokens[2]) > Level(tokens[4]))
       => rpn = <<tokens[1], tokens[3], tokens[2], tokens[5], tokens[4]>>
    /\ (/\ pc = "done"
        /\ tokens = <<make_Integer(2), make("Addition"), make_Integer(3),
                      make("Multiplication"), make_Integer(4)>>)
       => (outcome.exc = "none" /\ outcome.result = make_Integer(14))

C6_Witness ==
    /\ pc = "done"
    /\ tokens = <<make_Integer(2), make("Addition"), make_Integer(3),
                  make("Multiplication"), make_Integer(4)>>
    /\ rpn = <<make_Integer(2), make_Integer(3), make_Integer(4),
               make("Multiplication"), make("Addition")>>
    /\ outcome.result = make_Integer(14)

\* C7: a postfix Factorial is applied before the prefix operator in front of
\* its operand: -3! tokenizes to Negation 3 Factorial, parses to
\* 3 Factorial Negation and evaluates to Integer -6.
C7_FactorialBeforePrefix ==
    /\ (pc # "ready" /\ expression = <<"-", "3", "!">>)
       => (/\ outcome.stage # "tokenize"
           /\ tokens = <<make("Negation"), make_Integer(3), make("Factorial")>>)
    /\ (/\ pc \in {"tokenized", "parsed", "done"}
        /\ Len(tokens) = 3
        /\ is(PrefixOperator, tokens[1])
        /\ is(Operand, tokens[2])
        /\ is({"Factorial"}, tokens[3]))
       => (/\ outcome.stage # "parse"
           /\ pc # "tokenized" => rpn = <<tokens[2], tokens[3], tokens[1]>>)
    /\ (pc = "done" /\ expression = <<"-", "3", "!">>)
       => (outcome.exc = "none" /\ outcome.result = make_Integer(0 - 6))

C7_Witness ==
    /\ pc = "done"
    /\ expression = <<"-", "3", "!">>
    /\ rpn = <<make_Integer(3), make("Factorial"), make("Negation")>>
    /\ outcome.result = make_Integer(0 - 6)

\* C8: Addition, Subtraction, Multiplication or Division with a Boolean
\* operand ends with the evaluator error "unsupported operand" and produces
\* no result.
C8_BooleanArithmeticRejected ==
    (/\ pc = "done"
     /\ IsBinaryRpn({"Addition", "Subtraction", "Multiplication", "Division"})
     /\ HasValue(rpn[1]) /\ HasValue(rpn[2])
     /\ \/ holds_alternative("bool", ValueAtEntry(rpn[1]).val)
        \/ holds_alternative("bool", ValueAtEntry(rpn[2]).val))
    => (/\ outcome.exc = "runtime_error"
        /\ outcome.msg = "Error: unsupported operand"
        /\ outcome.result = NullOperand)

\* C9: And, Or, Xor, Nand, Nor or Xnor with an Integer or Real operand ends
\* with the evaluator error "unsupported operand" and returns no value.
C9_BooleanOperatorRejectsNumbers ==
    (/\ pc = "done"
     /\ IsBinaryRpn({"And", "Or", "Xor", "Nand", "Nor", "Xnor"})
     /\ HasValue(rpn[1]) /\ HasValue(rpn[2])
     /\ \/ ~holds_alternative("bool", ValueAtEntry(rpn[1]).val)
        \/ ~holds_alternative("bool", ValueAtEntry(rpn[2]).val))
    => (/\ outcome.exc = "runtime_error"
        /\ outcome.msg = "Error: unsupported operand"
        /\ outcome.result = NullOperand)

\* an Integer and a Real, in either order, of the same mathematical value
SameNumber(a, b) ==
    /\ HasValue(a) /\ HasValue(b)
    /\ LET va == ValueAtEntry(a).val
           vb == ValueAtEntry(b).val
       IN  /\ {va.t, vb.t} = {"Integer", "Real"}
           /\ va.den = 1 /\ vb.den = 1 /\ va.num = vb.num

\* C10: Equality of an Integer and a Real of the same mathematical value is
\* Boolean true and Inequality is false, in either operand order.
C10_IntegerEqualsReal ==
    (pc = "done" /\ IsBinaryRpn({"Equality", "Inequality"}) /\ SameNumber(rpn[1], rpn[2]))
    => (/\ outcome.exc = "none"
        /\ outcome.result = make_Boolean(is({"Equality"}, rpn[3])))

C10_Witness ==
    /\ pc = "done"
    /\ rpn = <<make_Real(2, 1), make_Variable(2), make("Equality")>>
    /\ slots0[2] = make_Integer(2)
    /\ outcome.result = make_Boolean(TRUE)

\* the first parenthesis defect of a token list read from token i on with
\* depth LeftParentheses open: "right" for a RightParenthesis with no open
\* LeftParenthesis, "left" for a LeftParenthesis still open at the end
RECURSIVE ParenDefect(_, _, _)
ParenDefect(ts, i, depth) ==
    IF i > Len(ts) THEN (IF depth > 0 THEN "left" ELSE "none")
    ELSE IF is({"LeftParenthesis"}, ts[i]) THEN ParenDefect(ts, i + 1, depth + 1)
    ELSE IF is({"RightParenthesis"}, ts[i])
         THEN (IF depth = 0 THEN "right" ELSE ParenDefect(ts, i + 1, depth - 1))
    ELSE ParenDefect(ts, i + 1, depth)

ParseFailedWith(msg) ==
    /\ pc = "done"
    /\ outcome.stage = "parse"
    /\ outcome.exc = "runtime_error"
    /\ outcome.msg = msg
    /\ rpn = <<>>
    /\ outcome.result = NullOperand

\* C11: parse fails exactly on unbalanced parentheses: with "Right
\* parenthesis has no matching left parenthesis" at a RightParenthesis that
\* has no open LeftParenthesis, with "Missing right-parenthesis" when a
\* LeftParenthesis is still open at the end; every other token list is
\* accepted, and a failing parse returns no output.
C11_ParseFailsOnUnbalanced ==
    (pc \in {"parsed", "done"} /\ outcome.stage # "tokenize")
    => CASE ParenDefect(tokens, 1, 0) = "right" ->
                ParseFailedWith("Right parenthesis has no matching left parenthesis")
         [] ParenDefect(tokens, 1, 0) = "left" ->
                ParseFailedWith("Missing right-parenthesis")
         [] OTHER -> outcome.stage # "parse"

\* ( ) ) : the second RightParenthesis has no LeftParenthesis left to match
C11_Witness ==
    /\ tokens = <<make("LeftParenthesis"), make("RightParenthesis"),
                  make("RightParenthesis")>>
    /\ ParseFailedWith("Right parenthesis has no matching left parenthesis")

\* the number of operands an operation takes from the stack
Arity(token) ==
    IF is(UnaryOperator \cup OneArgFunction, token) THEN 1
    ELSE IF is(BinaryOperator \cup TwoArgFunction, token) THEN 2
    ELSE 0

\* the height of the operand stack after the first n tokens of a postfix
\* list, every operation taking its operands and leaving one result
RECURSIVE Height(_, _)
Height(ts, n) ==
    IF n = 0 THEN 0
    ELSE IF is(Operand, ts[n]) THEN Height(ts, n - 1) + 1
    ELSE IF is(Operation, ts[n]) THEN Height(ts, n - 1) - Arity(ts[n]) + 1
    ELSE Height(ts, n - 1)

\* the positions of the operations that find fewer operands than their arity
Underflows(ts) ==
    {i \in DOMAIN ts : is(Operation, ts[i]) /\ Height(ts, i - 1) < Arity(ts[i])}

FirstUnderflow(ts) ==
    IF Underflows(ts) = {} THEN 0
    ELSE CHOOSE i \in Underflows(ts) : \A j \in Underflows(ts) : i <= j

\* no token before position n raises an exception
RunsUpTo(ts, n) ==
    evaluate_loop(EvalState(<<>>, slots0), SubSeq(ts, 1, n), 1).exc = "none"

EvaluateFailedWith(msg) ==
    /\ outcome.exc = "runtime_error"
    /\ outcome.msg = msg
    /\ outcome.result = NullOperand

\* C12: evaluate returns a value only when exactly one operand is left after
\* the last token; an operation that finds fewer operands than its arity, or
\* an empty final stack, ends with "insufficient operands"; more than one
\* operand left ends with "too many operands".
C12_StackDiscipline ==
    (pc = "done" /\ outcome.stage = "evaluate")
    => LET u == FirstUnderflow(rpn)
           h == Height(rpn, Len(rpn))
       IN  /\ outcome.exc = "none"
              => (u = 0 /\ h = 1 /\ is(Operand, outcome.result))
           /\ (u # 0 /\ RunsUpTo(rpn, u - 1))
              => EvaluateFailedWith("Error: insufficient operands")
           /\ (u = 0 /\ RunsUpTo(rpn, Len(rpn)) /\ h = 0)
              => EvaluateFailedWith("Error: insufficient operands")
           /\ (u = 0 /\ RunsUpTo(rpn, Len(rpn)) /\ h > 1)
              => EvaluateFailedWith("Error: too many operands")
           /\ outcome.msg = "Error: too many operands" => (u = 0 /\ h > 1)
           /\ outcome.msg = "Error: insufficient operands" => (u # 0 \/ h = 0)

\* 2 2 : two operands and no operation
C12_Witness ==
    /\ pc = "done"
    /\ rpn = <<make_Integer(2), make_Integer(2)>>
    /\ EvaluateFailedWith("Error: too many operands")

\* the tokenizer's outcome for an expression, read off the state
TokenizeFailed == pc = "done" /\ outcome.stage = "tokenize"

TokenizeFailedWith(msg, offset) ==
    /\ TokenizeFailed
    /\ outcome.exc = "XTokenizer"
    /\ outcome.msg = msg
    /\ outcome.offset = offset
    /\ tokens = <<>>

Tokenized == pc # "ready" /\ ~TokenizeFailed

\* the first and the last position of the run of letters and digits around i
RECURSIVE RunStart(_, _)
RunStart(e, i) == IF i > 1 /\ isalnum(e[i - 1]) THEN RunStart(e, i - 1) ELSE i

RECURSIVE RunEnd(_, _)
RunEnd(e, i) == IF i < Len(e) /\ isalnum(e[i + 1]) THEN RunEnd(e, i + 1) ELSE i

\* an identifier starts at i: a letter at the start of its run, or behind
\* the digits of a number that starts the run
IdentifierAt(e, i) ==
    /\ isalpha(e[i])
    /\ \A j \in RunStart(e, i)..(i - 1) : isdigit(e[j])

Spelling(e, i) == SubSeq(e, i, RunEnd(e, i))

\* the positions where an identifier that names a Function starts
FunctionIdentifiers(e) ==
    {i \in DOMAIN e : /\ IdentifierAt(e, i)
                      /\ \E k \in keywords_m : k[1] = Spelling(e, i) /\ k[2] \in Function}

RECURSIVE NextNonSpace(_, _)
NextNonSpace(e, i) ==
    IF i <= Len(e) /\ e[i] = " " THEN NextNonSpace(e, i + 1) ELSE i

\* the position a Function identifier at i is looked up at for its "("
ParenPosition(e, i) == NextNonSpace(e, RunEnd(e, i) + 1)

FollowedByParen(e, i) ==
    ParenPosition(e, i) <= Len(e) /\ e[ParenPosition(e, i)] = "("

\* C13: a Function identifier is emitted as its function token only when the
\* next character that is no whitespace is "("; otherwise (another character
\* or the end of the input) tokenize fails with "Function not followed by ("
\* at that character and returns no token list.
C13_FunctionNeedsParenthesis ==
    LET e == expression
        functions == FunctionIdentifiers(e)
    IN  /\ Tokenized
           => /\ \A i \in functions : FollowedByParen(e, i)
              /\ Len(SelectSeq(tokens, LAMBDA t : is(Function, t))) = Cardinality(functions)
        /\ \A i \in functions :
              (pc # "ready" /\ ~FollowedByParen(e, i))
              => /\ TokenizeFailed
                 /\ tokens = <<>>
                 /\ \/ outcome.offset <= i - 1
                    \/ TokenizeFailedWith("Function not followed by (",
                                          ParenPosition(e, i) - 1)
        /\ (TokenizeFailed /\ outcome.msg = "Function not followed by (")
           => \E i \in functions :
                 /\ ~FollowedByParen(e, i)
                 /\ TokenizeFailedWith("Function not followed by (",
                                       ParenPosition(e, i) - 1)

\* sin 1
C13_Witness ==
    /\ expression = <<"s", "i", "n", " ", "1">>
    /\ TokenizeFailedWith("Function not followed by (", 4)

\* what a new Tokenizer makes of the text in front of position i
Before(e, i) == tokenize(SubSeq(e, 1, i - 1), <<>>, <<>>)

\* the last token of a list is an operand, a Factorial or a RightParenthesis
EndsExpression(ts) ==
    ts # <<>> /\ is(Operand \cup {"Factorial", "RightParenthesis"}, ts[Len(ts)])

SameFailure(r) ==
    /\ TokenizeFailed
    /\ outcome.exc = r.exc /\ outcome.msg = r.msg /\ outcome.offset = r.offset
    /\ tokens = <<>>

\* the positions of the "!" that do not start the operator "!="
FactorialMarks(e) ==
    {i \in DOMAIN e : e[i] = "!" /\ ~(i < Len(e) /\ e[i + 1] = "=")}

\* C14: a "!" not followed by "=" becomes a Factorial only when the last
\* token emitted is an operand, a Factorial or a RightParenthesis; anywhere
\* else tokenize fails with "Factorial must follow Expression" at the "!"
\* and returns no token list.
C14_FactorialFollowsExpression ==
    LET e == expression
    IN  /\ \A i \in FactorialMarks(e) :
              pc # "ready"
              => LET before == Before(e, i)
                 IN  IF before.exc # "none" THEN SameFailure(before)
                     ELSE IF EndsExpression(before.tokens)
                     THEN /\ ~(TokenizeFailed /\ outcome.offset = i - 1)
                          /\ Tokenized
                             => tokens[Len(before.tokens) + 1] = make("Factorial")
                     ELSE TokenizeFailedWith("Factorial must follow Expression", i - 1)
        /\ (TokenizeFailed /\ outcome.msg = "Factorial must follow Expression")
           => /\ (outcome.offset + 1) \in FactorialMarks(e)
              /\ tokens = <<>>
        /\ Tokenized
           => \A k \in DOMAIN tokens :
                 is({"Factorial"}, tokens[k])
                 => EndsExpression(SubSeq(tokens, 1, k - 1))

\* ( ! : a "!" behind a LeftParenthesis
C14_Witness ==
    /\ expression = <<"(", "!">>
    /\ TokenizeFailedWith("Factorial must follow Expression", 1)

\* the token that ends at the last character in front of position i which
\* is no whitespace is an operand, a Factorial or a RightParenthesis
RECURSIVE LastNonSpace(_, _)
LastNonSpace(e, i) == IF i >= 1 /\ e[i] = " " THEN LastNonSpace(e, i - 1) ELSE i

\* the identifier or number that ends at position j is an operand
OperandEndsAt(e, j) ==
    /\ isalnum(e[j])
    /\ LET s == RunStart(e, j)
           idents == {i \in s..j : IdentifierAt(e, i)}
       IN  \/ idents = {}
           \/ LET i == CHOOSE i \in idents : \A k \in idents : i <= k
                  word == SubSeq(e, i, j)
              IN  \A k \in keywords_m : k[1] = word => k[2] \in Operand

FollowsExpression(e, i) ==
    LET j == LastNonSpace(e, i - 1)
    IN  /\ j >= 1
        /\ \/ e[j] \in {")", "!"}
           \/ OperandEndsAt(e, j)

SignMarks(e) == {i \in DOMAIN e : e[i] \in {"+", "-"}}

\* C19: "+" and "-" are emitted as Addition and Subtraction exactly when the
\* last token emitted is an operand (literal, named constant or variable), a
\* Factorial or a RightParenthesis, and as Identity and Negation in every
\* other context; whitespace in between does not change the choice.
C19_SignOrBinary ==
    LET e == expression
    IN  \A i \in SignMarks(e) :
           Tokenized
           => LET before == Before(e, i)
                  emitted == tokens[Len(before.tokens) + 1]
                  binary == IF e[i] = "+" THEN "Addition" ELSE "Subtraction"
                  prefix == IF e[i] = "+" THEN "Identity" ELSE "Negation"
              IN  /\ before.exc = "none"
                  /\ EndsExpression(before.tokens) <=> FollowsExpression(e, i)
                  /\ emitted = make(IF FollowsExpression(e, i) THEN binary ELSE prefix)
                  /\ emitted = make(IF EndsExpression(before.tokens) THEN binary ELSE prefix)

\* "x -" with a blank in between: the "-" behind a variable is a Subtraction
C19_Witness ==
    /\ pc = "tokenized"
    /\ expression = <<"x", " ", "-">>
    /\ tokens = <<make_Variable(1), make("Subtraction")>>

OperandsOf(ts) == SelectSeq(ts, LAMBDA t : is(Operand, t))

\* C15: parse keeps the operands in their input order: the operands of the
\* output, in order, are the operands of the input, and an input made of
\* operands only is returned unchanged.
C15_OperandOrderKept ==
    Parsed => /\ OperandsOf(rpn) = OperandsOf(tokens)
              /\ OperandsOf(tokens) = tokens => rpn = tokens

\* 2 x 2 : three operands and nothing else
C15_Witness ==
    /\ pc = "parsed"
    /\ tokens = <<make_Integer(2), make_Variable(1), make_Integer(2)>>
    /\ rpn = tokens

\* max(1, 2) + min(3, 4) as tokenize returns it
MaxPlusMin ==
    Call("Max", <<make_Integer(1)>>, <<make_Integer(2)>>) \o <<make("Addition")>>
        \o Call("Min", <<make_Integer(3)>>, <<make_Integer(4)>>)

\* C16: f(a, b) parses to RPN(a) RPN(b) f: the operators of an argument are
\* emitted before the next argument starts and the function when its
\* RightParenthesis is read, ahead of what follows the call;
\* max(1, 2) + min(3, 4) parses to 1 2 max 3 4 min + and evaluates to Real 5.
C16_FunctionCall ==
    /\ (Parsed /\ tokens # <<>> /\ is(TwoArgFunction, tokens[1]))
       => \A a \in Arguments, b \in Arguments :
             LET f == tokens[1]
                 call == Call(f.kind, a, b)
                 n == Len(call)
             IN  /\ tokens = call
                    => rpn = parse(a).output \o parse(b).output \o <<f>>
                 /\ (/\ Len(tokens) = n + 2
                     /\ SubSeq(tokens, 1, n) = call
                     /\ is(BinaryOperator, tokens[n + 1])
                     /\ is(Operand, tokens[n + 2]))
                    => rpn = parse(a).output \o parse(b).output
                                 \o <<f, tokens[n + 2], tokens[n + 1]>>
    /\ (pc # "tokenized" /\ tokens = MaxPlusMin)
       => /\ Parsed
          /\ rpn = <<make_Integer(1), make_Integer(2), make("Max"), make_Integer(3),
                     make_Integer(4), make("Min"), make("Addition")>>
          /\ pc = "done" => (outcome.exc = "none" /\ outcome.result = make_Real(5, 1))

C16_Witness ==
    /\ pc = "done"
    /\ tokens = MaxPlusMin
    /\ rpn = <<make_Integer(1), make_Integer(2), make("Max"), make_Integer(3),
               make_Integer(4), make("Min"), make("Addition")>>
    /\ outcome.result = make_Real(5, 1)

\* C17: Negation of an Integer is the Integer of opposite sign, Negation of a
\* Real the Real of opposite sign, directly or through a Variable holding the
\* value; Negation of a Boolean ends with "unsupported operand".
C17_NegationKeepsBranch ==
    (/\ pc = "done"
     /\ Len(rpn) = 2 /\ is(Operand, rpn[1]) /\ is({"Negation"}, rpn[2])
     /\ HasValue(rpn[1]))
    => LET v == ValueAtEntry(rpn[1]).val
       IN  CASE holds_alternative("Integer", v) ->
                    /\ outcome.exc = "none"
                    /\ outcome.result = [kind |-> "Integer", num |-> 0 - v.num, den |-> 1]
             [] holds_alternative("Real", v) ->
                    /\ outcome.exc = "none"
                    /\ outcome.result = [kind |-> "Real", num |-> 0 - v.num, den |-> v.den]
             [] holds_alternative("bool", v) ->
                    EvaluateFailedWith("Error: unsupported operand")

\* the Variable holding Real 2, negated
C17_Witness ==
    /\ pc = "done"
    /\ rpn = <<make_Variable(3), make("Negation")>>
    /\ slots0[3] = make_Real(2, 1)
    /\ outcome.result = make_Real(0 - 2, 1)

\* a Boolean and an Integer or a Real, in either order
BooleanAndNumber(a, b) ==
    /\ HasValue(a) /\ HasValue(b)
    /\ LET va == ValueAtEntry(a).val
           vb == ValueAtEntry(b).val
       IN  \/ va.t = "bool" /\ vb.t \in {"Integer", "Real"}
           \/ vb.t = "bool" /\ va.t \in {"Integer", "Real"}

\* C18: Equality of a Boolean and an Integer or a Real raises no error and
\* is false, and Inequality is true, for every pair of values in either
\* operand order.
C18_BranchesNeverEqual ==
    (/\ pc = "done"
     /\ IsBinaryRpn({"Equality", "Inequality"})
     /\ BooleanAndNumber(rpn[1], rpn[2]))
    => (/\ outcome.exc = "none"
        /\ outcome.result = make_Boolean(is({"Inequality"}, rpn[3])))

Arithmetic == {"Addition", "Subtraction", "Multiplication", "Division"}

\* two operands holding an Integer or a Real each
BothNumbers(a, b) ==
    /\ HasValue(a) /\ HasValue(b)
    /\ ValueAtEntry(a).val.t \in {"Integer", "Real"}
    /\ ValueAtEntry(b).val.t \in {"Integer", "Real"}

\* C20: Addition, Subtraction, Multiplication and Division of two numbers,
\* given directly or through initialized Variables, yield a Real when at
\* least one operand is a Real and an Integer when both are Integers (an
\* Integer division by zero yields nothing); (1 + 2) * 3.0 is Real 9 and
\* (1 + 2) * 3 is Integer 9.
C20_ArithmeticPromotion ==
    /\ (pc = "done" /\ IsBinaryRpn(Arithmetic) /\ BothNumbers(rpn[1], rpn[2]))
       => LET l == ValueAtEntry(rpn[1]).val
              r == ValueAtEntry(rpn[2]).val
              real == l.t = "Real" \/ r.t = "Real"
          IN  /\ outcome.exc # "none"
                 => (~real /\ is({"Division"}, rpn[3]) /\ r.num = 0)
              /\ outcome.exc = "none"
                 => outcome.result.kind = (IF real THEN "Real" ELSE "Integer")
    /\ (pc = "done" /\ rpn \in PromotionInputs)
       => (/\ outcome.exc = "none"
           /\ outcome.result = (IF is({"Real"}, rpn[4]) THEN make_Real(9, 1)
                                ELSE make_Integer(9)))

\* (1 + 2) * 3.0
C20_Witness ==
    /\ pc = "done"
    /\ rpn = <<make_Integer(1), make_Integer(2), make("Addition"), make_Real(3, 1),
               make("Multiplication")>>
    /\ outcome.result = make_Real(9, 1)

\* the evaluator's locals after the first n tokens of rpn, entered with the
\* slots sl
EvaluatedUpTo(n, sl) == evaluate_loop(EvalState(<<>>, sl), SubSeq(rpn, 1, n), 1)

\* the handles whose slot differs between two slot lists
ChangedSlots(before, after) ==
    {h \in DOMAIN before : h \notin DOMAIN after \/ after[h] # before[h]}

\* while token i of rpn is processed, no slot changes unless the token is an
\* Assignment, and then at most that of the Variable under the top of the stack
TokenKeepsFrame(i, sl) ==
    LET before == EvaluatedUpTo(i - 1, sl)
        after == EvaluatedUpTo(i, sl)
        changed == ChangedSlots(before.slots, after.slots)
    IN  /\ DOMAIN after.slots = DOMAIN before.slots
        /\ ~is({"Assignment"}, rpn[i]) => changed = {}
        /\ changed # {}
           => /\ Len(before.stack) >= 2
              /\ is({"Variable"}, before.stack[Len(before.stack) - 1])
              /\ changed = {before.stack[Len(before.stack) - 1].num}

\* the left-hand Variables of the Assignments evaluate carries out
AssignedVariables(sl) ==
    {h \in DOMAIN sl :
        \E i \in DOMAIN rpn :
           LET before == EvaluatedUpTo(i - 1, sl)
           IN  /\ is({"Assignment"}, rpn[i])
               /\ before.exc = "none"
               /\ Len(before.stack) >= 2
               /\ before.stack[Len(before.stack) - 1] = make_Variable(h)}

\* C21: tokenize and parse change no Variable's slot; evaluate changes a slot
\* only while it processes an Assignment, and then only the slot of that
\* Assignment's left-hand Variable.
C21_SlotFrame ==
    [][/\ pc \in {"ready", "done", "tokenized"}
          => /\ ChangedSlots(slots, slots') = {}
             /\ \A h \in DOMAIN slots' \ DOMAIN slots : slots'[h] = NullOperand
       /\ pc = "tokenized" => slots' = slots
       /\ pc = "parsed"
          => /\ DOMAIN slots' = DOMAIN slots
             /\ ChangedSlots(slots, slots') \subseteq AssignedVariables(slots)
             /\ \A i \in DOMAIN rpn : TokenKeepsFrame(i, slots)
             /\ slots' = EvaluatedUpTo(Len(rpn), slots).slots]_vars

\* i = r = 1 has set r and then i, and left u and b alone
C21_Witness ==
    /\ pc = "done"
    /\ expression = <<"i", " ", "=", " ", "r", " ", "=", " ", "1">>
    /\ slots0 = EvalSlots
    /\ slots = <<NullOperand, make_Integer(1), make_Integer(1), make_Boolean(TRUE)>>

\* the spellings of the identifiers that are no keywords and end in front of
\* the character at the given offset
IdentifiersBefore(e, offset) ==
    {Spelling(e, i) : i \in {k \in DOMAIN e : /\ IdentifierAt(e, k)
                                               /\ RunEnd(e, k) <= offset
                                               /\ ~is_keyword(Spelling(e, k))}}

\* C22: a tokenize that fails leaves in the dictionary the Variables it
\* registered for the new identifiers scanned before the failure point, keeps
\* every entry registered before the call on the same Variable and changes
\* no slot; the dictionary only ever grows.
C22_FailureKeepsRegistrations ==
    [][/\ \A a \in DOMAIN variables :
             a \in DOMAIN variables' /\ variables'[a] = variables[a]
       /\ (pc \in {"ready", "done"} /\ pc' = "done")
          => /\ outcome'.stage = "tokenize"
             /\ tokens' = <<>>
             /\ DOMAIN variables'
                    = DOMAIN variables \cup IdentifiersBefore(expression', outcome'.offset)
             /\ ChangedSlots(slots, slots') = {}
             /\ \A a \in DOMAIN variables' \ DOMAIN variables :
                   /\ variables'[a] \in DOMAIN slots' \ DOMAIN slots
                   /\ slots'[variables'[a]] = NullOperand]_vars

\* n+m$ : n and m are registered before the bad character is met
C22_Witness ==
    /\ pc = "done"
    /\ outcome.exc = "XBadCharacter"
    /\ expression = <<"n", "+", "m", "$">>
    /\ variables = EvalVariables @@ (<<"n">> :> 5) @@ (<<"m">> :> 6)
    /\ slots = EvalSlots \o <<NullOperand, NullOperand>>

ParseDone == pc \in {"parsed", "done"}

\* C23: a prefix operator written directly behind a prefix operator or
\* behind Power goes into the RPN behind its operand and in front of the
\* operator that precedes it, and the expression evaluates to a value:
\* - - 3 to Integer 3 and not not true to Boolean true.
C23_PrefixAfterOperator ==
    /\ (/\ ParseDone
        /\ Len(tokens) = 3
        /\ is(PrefixOperator, tokens[1]) /\ is(PrefixOperator, tokens[2])
        /\ is(Operand, tokens[3]))
       => /\ outcome.stage # "parse"
          /\ rpn = <<tokens[3], tokens[2], tokens[1]>>
    /\ (/\ ParseDone
        /\ Len(tokens) = 4
        /\ is(Operand, tokens[1]) /\ is({"Power"}, tokens[2])
        /\ is(PrefixOperator, tokens[3]) /\ is(Operand, tokens[4]))
       => /\ outcome.stage # "parse"
          /\ rpn = <<tokens[1], tokens[4], tokens[3], tokens[2]>>
    /\ (pc = "done"
        /\ tokens = <<make("Negation"), make("Negation"), make_Integer(3)>>)
       => (outcome.exc = "none" /\ outcome.result = make_Integer(3))
    /\ (pc = "done" /\ tokens = <<make("Not"), make("Not"), make("True")>>)
       => (/\ outcome.exc = "none"
           /\ to_value(outcome.result, slots) = Returned(BoolValue(TRUE)))

====
